---- MODULE Spec2Model ----
(***************************************************************************)
(* State-machine model of the trading decision-and-risk engine:            *)
(*   - the risk gate            (services/risk_manager.py)                 *)
(*   - the persisted tables     (models/trading.py)                        *)
(*   - the periodic engine      (services/strategy_engine_new.py)          *)
(*   - the evaluating engine    (services/strategy_engine.py) and its      *)
(*     control routes           (routes/strategy.py, routes/trading.py)    *)
(*   - the mock broker          (services/broker_adapter.py)               *)
(*                                                                         *)
(* Units.  Money is in whole currency units (every amount the model uses   *)
(* is integral, so Decimal arithmetic on it is exact).  Wall-clock time is *)
(* in minutes since local midnight of day 0; a calendar day is 24*60       *)
(* minutes.  datetime.now() is `now`; datetime.utcnow() is now - tzOffset. *)
(***************************************************************************)
EXTENDS Integers, Sequences, FiniteSets, TLC

VARIABLES
    \* ---- wall clock and deployment ----
    now,              \* datetime.now(): local minutes since midnight of day 0
    tzOffset,         \* local time minus UTC, minutes (fixed by the deployment)
    \* ---- persisted tables (models/trading.py) ----
    params,           \* the TradingParameters row, or NoRow
    trade_records,    \* TradeRecord table, in insertion order
    positions,        \* Position table, in insertion order (index = id)
    logged,           \* SystemLog rows appended by the most recent operation
    \* ---- RiskManager instance (risk_manager.py:18-21) ----
    emergency_stop,
    recent_signals,   \* dict: <<stock_code, date>> -> time of last accepted signal
    \* ---- observation of the most recent pre_trade_risk_check call ----
    lastCheck,
    lastAccept,       \* per stock: time this RiskManager last accepted it, or Never
    \* ---- MockBrokerAdapter instance (broker_adapter.py:79-93) ----
    mock_balance,
    mock_positions,   \* dict: stock_code -> [quantity, avg_cost]
    mock_orders,      \* the orders recorded as FILLED, in order
    order_counter,
    mock_prices,      \* dict: stock_code -> price
    \* ---- evaluating engine (strategy_engine.py) and its requests ----
    is_running,       \* StrategyEngine.is_running
    signal_history,   \* SignalHistory rows (as a set: equal rows are not counted)
    cyc,              \* per request: where its run-cycle handler is, and its locals
    submitted,        \* every broker.place_order call made by a cycle, in order
    cyclesBegun,      \* run-cycle requests started so far
    \* ---- periodic engine (strategy_engine_new.py:17-25) ----
    loop_is_running,  \* StrategyEngine.is_running of the periodic engine
    start_time,
    stop_event,       \* _stop_event: TRUE = set
    threads,          \* every loop thread created so far; the last is _strategy_thread
    current_signals,  \* number of entries appended to current_signals
    stopCall,         \* a stop() call blocked in join(), or "none"
    lastCall          \* the most recent start()/stop() call, or call of a function
                      \* on its own, and what it returned

riskVars == <<now, tzOffset, params, trade_records, positions, logged,
              emergency_stop, recent_signals, lastCheck, lastAccept>>
brokerVars == <<mock_balance, mock_positions, mock_orders, order_counter, mock_prices>>
engineVars == <<is_running, signal_history, cyc, submitted, cyclesBegun>>
loopVars == <<loop_is_running, start_time, stop_event, threads, current_signals,
              stopCall, lastCall>>
vars == <<riskVars, brokerVars, engineVars, loopVars>>

----------------------------------------------------------------------------
(* Bounds of the model *)
MaxTrades == 1          \* rows the TradeRecord table may hold
MaxClockSteps == 3      \* times the clock is advanced

(* Program constants *)
CooldownMinutes == 60
MaxExposurePct == 20
DefaultMaxDailyTrades == 20

MinutesPerDay == 24 * 60
StepMinutes == 60 \div 2                \* granularity of the modelled clock
StartTime == 22 * 60 + 30               \* 22:30 local on day 0
TzOffsets == {0, 8 * 60}                \* server in UTC, server in Asia/Taipei
Stocks == {"2330.TW", "2454.TW"}

NoRow == [row |-> FALSE]
Never == 0 - 1
NullValue == 0 - 1                      \* SQL NULL in a nullable numeric column

DateOf(t) == t \div MinutesPerDay                   \* datetime.date()
MidnightOf(t) == DateOf(t) * MinutesPerDay          \* datetime.combine(date, min.time())
UtcNow == now - tzOffset                            \* datetime.utcnow()

(* models/trading.py:11-19, the column defaults.  Ratios and percentages   *)
(* are in hundredths (1.5 -> 150, 10.0% -> 1000, -5.0% -> -500).           *)
DefaultParameters ==
    [row |-> TRUE, is_active |-> TRUE, min_volume_shares |-> 1000,
     min_volume_ratio |-> 150, min_money_flow |-> 2000,
     take_profit_pct |-> 1000, stop_loss_pct |-> -500,
     per_order_value |-> 500000, max_total_position |-> 1000000,
     max_daily_trades |-> DefaultMaxDailyTrades]

ParamFields == DOMAIN DefaultParameters \ {"row"}

(* A SystemLog row: level and module (the message text is not modelled). *)
LogRow(level, module) == [level |-> level, module |-> module]

----------------------------------------------------------------------------
(* RiskManager (services/risk_manager.py)                                  *)

(* load_parameters: the first row, or None when there is none or the query *)
(* raises (ok = FALSE).                                                    *)
load_parameters(ok) == IF ok THEN params ELSE NoRow

(* A faulty variant of check_emergency_stop that ignores the in-memory flag *)
check_emergency_stop_params_only(ok) ==
    LET p == load_parameters(ok) IN (~p.row) \/ (~p.is_active)

(* A faulty variant of check_emergency_stop that ignores is_active *)
check_emergency_stop_flag_only(ok) ==
    emergency_stop \/ ~load_parameters(ok).row

(* check_emergency_stop: TRUE = halted.  The flag is tested first; the     *)
(* parameters are loaded only when it is clear.                            *)
check_emergency_stop(ok) ==
    \/ emergency_stop
    \/ LET p == load_parameters(ok) IN (~p.row) \/ (~p.is_active)

(* The query of check_daily_trade_limit: rows whose stored trade_date (a   *)
(* naive UTC timestamp, column default utcnow) is >= the naive local       *)
(* midnight of datetime.now().date().                                      *)
today_count ==
    Cardinality({i \in DOMAIN trade_records :
                    trade_records[i].trade_date >= MidnightOf(now)})

(* TRUE = within the limit *)
check_daily_trade_limit(max_daily_trades) == ~(today_count >= max_daily_trades)

(* A faulty variant of check_position_limit that also rejects a sum equal  *)
(* to the limit                                                            *)
check_position_limit_strict(current_total_value, new_order_value, max_total_position) ==
    ~(current_total_value + new_order_value >= max_total_position)

check_position_limit(current_total_value, new_order_value, max_total_position) ==
    ~(current_total_value + new_order_value > max_total_position)

(* Position.query.filter_by(stock_code, is_active=True).first() *)
ActiveIds(stock_code) ==
    {i \in DOMAIN positions :
        positions[i].stock_code = stock_code /\ positions[i].is_active}

FirstActive(stock_code) ==
    CHOOSE i \in ActiveIds(stock_code) : \A j \in ActiveIds(stock_code) : i <= j

(* current_value: the row's market_value, 0 when there is no active row or *)
(* the column is NULL or 0.                                                *)
current_position_value(stock_code) ==
    IF ActiveIds(stock_code) = {} THEN 0
    ELSE LET mv == positions[FirstActive(stock_code)].market_value
         IN IF mv = NullValue THEN 0 ELSE mv

(* exposure_pct = projected / total * 100 if total > 0 else 0, compared    *)
(* with max_exposure_pct.  For total > 0 the comparison is done on the     *)
(* cross-multiplied integers, which is exact.                              *)
check_single_stock_exposure(stock_code, new_order_value, total_asset_value) ==
    LET projected_value == current_position_value(stock_code) + new_order_value
        exceeds == IF total_asset_value > 0
                   THEN projected_value * 100 > MaxExposurePct * total_asset_value
                   ELSE 0 > MaxExposurePct
    IN ~exceeds

cooldown_key(stock_code) == <<stock_code, DateOf(now)>>

(* check_duplicate_signal, the test: TRUE = not a duplicate *)
check_duplicate_signal(stock_code) ==
    LET k == cooldown_key(stock_code)
    IN ~(k \in DOMAIN recent_signals
         /\ (now - recent_signals[k]) * 60 < CooldownMinutes * 60)

(* check_duplicate_signal, the write that follows a passed test *)
record_signal(stock_code) ==
    [k \in (DOMAIN recent_signals) \cup {cooldown_key(stock_code)} |->
        IF k = cooldown_key(stock_code) THEN now ELSE recent_signals[k]]

(* The outcome of pre_trade_risk_check in the current state: the returned  *)
(* pair, the rules evaluated in order, the SystemLog rows written and the  *)
(* resulting recent_signals.  ok1/ok2: whether the first and the second    *)
(* load_parameters query succeed.                                          *)
Outcome(allow, reason, evaluated, events, signals) ==
    [allow |-> allow, reason |-> reason, evaluated |-> evaluated,
     events |-> events, recent_signals |-> signals]

(* A faulty variant of pre_trade_risk_check that tests the duplicate-signal *)
(* rule, and records the timestamp, before the daily trade limit           *)
pre_trade_risk_check_cooldown_first(stock_code, order_value, current_positions_value, total_asset_value, ok1, ok2) ==
    IF check_emergency_stop(ok1)
    THEN Outcome(FALSE, "system_halted", <<"emergency_stop">>, <<>>, recent_signals)
    ELSE LET p == load_parameters(ok2) IN
    IF ~p.row
    THEN Outcome(FALSE, "parameters_unavailable",
                 <<"emergency_stop", "parameters">>, <<>>, recent_signals)
    ELSE IF ~check_duplicate_signal(stock_code)
    THEN Outcome(FALSE, "duplicate_signal",
                 <<"emergency_stop", "parameters", "duplicate_signal">>,
                 <<>>, recent_signals)
    ELSE IF ~check_daily_trade_limit(p.max_daily_trades)
    THEN Outcome(FALSE, "daily_trade_limit",
                 <<"emergency_stop", "parameters", "duplicate_signal",
                   "daily_trade_limit">>,
                 <<LogRow("WARNING", "daily_trade_limit")>>, record_signal(stock_code))
    ELSE IF ~check_position_limit(current_positions_value, order_value,
                                  p.max_total_position)
    THEN Outcome(FALSE, "position_limit",
                 <<"emergency_stop", "parameters", "duplicate_signal",
                   "daily_trade_limit", "position_limit">>,
                 <<LogRow("WARNING", "position_limit")>>, record_signal(stock_code))
    ELSE IF ~check_single_stock_exposure(stock_code, order_value, total_asset_value)
    THEN Outcome(FALSE, "single_stock_exposure",
                 <<"emergency_stop", "parameters", "duplicate_signal",
                   "daily_trade_limit", "position_limit", "single_stock_exposure">>,
                 <<LogRow("WARNING", "single_stock_exposure")>>,
                 record_signal(stock_code))
    ELSE Outcome(TRUE, "risk_check_passed",
                 <<"emergency_stop", "parameters", "duplicate_signal",
                   "daily_trade_limit", "position_limit", "single_stock_exposure">>,
                 <<>>, record_signal(stock_code))

pre_trade_risk_check(stock_code, order_value, current_positions_value, total_asset_value, ok1, ok2) ==
    IF check_emergency_stop(ok1)
    THEN Outcome(FALSE, "system_halted", <<"emergency_stop">>, <<>>, recent_signals)
    ELSE LET p == load_parameters(ok2) IN
    IF ~p.row
    THEN Outcome(FALSE, "parameters_unavailable",
                 <<"emergency_stop", "parameters">>, <<>>, recent_signals)
    ELSE IF ~check_daily_trade_limit(p.max_daily_trades)
    THEN Outcome(FALSE, "daily_trade_limit",
                 <<"emergency_stop", "parameters", "daily_trade_limit">>,
                 <<LogRow("WARNING", "daily_trade_limit")>>, recent_signals)
    ELSE IF ~check_position_limit(current_positions_value, order_value,
                                  p.max_total_position)
    THEN Outcome(FALSE, "position_limit",
                 <<"emergency_stop", "parameters", "daily_trade_limit",
                   "position_limit">>,
                 <<LogRow("WARNING", "position_limit")>>, recent_signals)
    ELSE IF ~check_single_stock_exposure(stock_code, order_value, total_asset_value)
    THEN Outcome(FALSE, "single_stock_exposure",
                 <<"emergency_stop", "parameters", "daily_trade_limit",
                   "position_limit", "single_stock_exposure">>,
                 <<LogRow("WARNING", "single_stock_exposure")>>, recent_signals)
    ELSE IF ~check_duplicate_signal(stock_code)
    THEN Outcome(FALSE, "duplicate_signal",
                 <<"emergency_stop", "parameters", "daily_trade_limit",
                   "position_limit", "single_stock_exposure", "duplicate_signal">>,
                 <<>>, recent_signals)
    ELSE Outcome(TRUE, "risk_check_passed",
                 <<"emergency_stop", "parameters", "daily_trade_limit",
                   "position_limit", "single_stock_exposure", "duplicate_signal">>,
                 <<>>, record_signal(stock_code))

----------------------------------------------------------------------------
(* The operations on the risk gate and the tables it reads                 *)

NoCheck == [called |-> FALSE]

(* No pre_trade_risk_check call is waiting to be returned to its caller *)
Returned == ~lastCheck.called

(* The clock advances. *)
Tick ==
    /\ Returned
    /\ now < StartTime + StepMinutes * MaxClockSteps
    /\ now' = now + StepMinutes
    /\ logged' = <<>>
    /\ lastCheck' = NoCheck
    /\ UNCHANGED <<tzOffset, params, trade_records, positions, emergency_stop,
                   recent_signals, lastAccept>>
    /\ UNCHANGED <<brokerVars, engineVars, loopVars>>

(* One call of RiskManager.pre_trade_risk_check, from entry to the return  *)
(* statement.  lastCheck keeps the arguments and the returned pair until   *)
(* the caller has taken them (ReturnCheck).                                *)
PreTradeRiskCheck(stock_code, order_value, current_positions_value, total_asset_value, ok1, ok2) ==
    LET out == pre_trade_risk_check(stock_code, order_value,
                   current_positions_value, total_asset_value, ok1, ok2)
    IN /\ Returned
       /\ recent_signals' = out.recent_signals
       /\ logged' = out.events
       /\ lastAccept' = IF out.allow
                        THEN [lastAccept EXCEPT ![stock_code] = now]
                        ELSE lastAccept
       /\ lastCheck' = [called |-> TRUE,
                        args |-> [stock_code |-> stock_code,
                                  order_value |-> order_value,
                                  current_positions_value |-> current_positions_value,
                                  total_asset_value |-> total_asset_value,
                                  ld |-> <<ok1, ok2>>],
                        allow |-> out.allow, reason |-> out.reason]
       /\ UNCHANGED <<now, tzOffset, params, trade_records, positions,
                      emergency_stop>>
       /\ UNCHANGED <<brokerVars, engineVars, loopVars>>

(* The caller takes the returned pair *)
ReturnCheck ==
    /\ lastCheck.called
    /\ lastCheck' = NoCheck
    /\ UNCHANGED <<now, tzOffset, params, trade_records, positions, logged,
                   emergency_stop, recent_signals, lastAccept>>
    /\ UNCHANGED <<brokerVars, engineVars, loopVars>>

(* risk_manager.py:263-267 *)
SetEmergencyStop ==
    /\ Returned
    /\ emergency_stop' = TRUE
    /\ logged' = <<LogRow("ERROR", "emergency_stop")>>
    /\ lastCheck' = NoCheck
    /\ UNCHANGED <<now, tzOffset, params, trade_records, positions,
                   recent_signals, lastAccept>>
    /\ UNCHANGED <<brokerVars, engineVars, loopVars>>

(* risk_manager.py:269-273 *)
ResetEmergencyStop ==
    /\ Returned
    /\ emergency_stop' = FALSE
    /\ logged' = <<LogRow("INFO", "emergency_stop")>>
    /\ lastCheck' = NoCheck
    /\ UNCHANGED <<now, tzOffset, params, trade_records, positions,
                   recent_signals, lastAccept>>
    /\ UNCHANGED <<brokerVars, engineVars, loopVars>>

(* routes/trading.py:241-263, POST /emergency-stop *)
EmergencyStopRoute ==
    /\ Returned
    /\ params' = IF params.row THEN [params EXCEPT !.is_active = FALSE] ELSE params
    /\ logged' = <<LogRow("WARNING", "emergency_control")>>
    /\ lastCheck' = NoCheck
    /\ UNCHANGED <<now, tzOffset, trade_records, positions, emergency_stop,
                   recent_signals, lastAccept>>
    /\ UNCHANGED <<brokerVars, engineVars, loopVars>>

(* routes/trading.py:31-96, PUT /parameters.  data: the request body, a    *)
(* function from field names to values.  Five fields are range-checked;    *)
(* any error rejects the whole update; otherwise the row is fetched or     *)
(* created and every field of the body that the row has is assigned.       *)
UpdateErrors(data) ==
    {f \in DOMAIN data :
        \/ f = "take_profit_pct" /\ (data[f] <= 0 \/ data[f] > 10000)
        \/ f = "stop_loss_pct" /\ (data[f] >= 0 \/ data[f] < 0 - 5000)
        \/ f = "min_volume_shares" /\ data[f] <= 0
        \/ f = "min_volume_ratio" /\ data[f] <= 0
        \/ f = "per_order_value" /\ data[f] <= 0}

UpdatedRow(row, data) ==
    [f \in DOMAIN row |->
        IF f \in DOMAIN data /\ f \in ParamFields THEN data[f] ELSE row[f]]

UpdateTradingParameters(data) ==
    /\ Returned
    /\ IF UpdateErrors(data) # {}
       THEN /\ params' = params
            /\ logged' = <<>>
       ELSE /\ params' = UpdatedRow(IF params.row THEN params ELSE DefaultParameters,
                                    data)
            /\ logged' = <<LogRow("INFO", "trading_parameters")>>
    /\ lastCheck' = NoCheck
    /\ UNCHANGED <<now, tzOffset, trade_records, positions, emergency_stop,
                   recent_signals, lastAccept>>
    /\ UNCHANGED <<brokerVars, engineVars, loopVars>>

----------------------------------------------------------------------------
(* MockBrokerAdapter (services/broker_adapter.py)                          *)

InitialBalance == 1000000
DefaultPrices == [s \in Stocks |-> IF s = "2330.TW" THEN 500 ELSE 800]

(* mock_prices.get(stock_code, {}).get('price', default) *)
PriceOr(stock_code, default) ==
    IF stock_code \in DOMAIN mock_prices THEN mock_prices[stock_code] ELSE default

(* get_balance *)
total_position_value_of_broker ==
    LET RECURSIVE Sum(_)
        Sum(S) == IF S = {} THEN 0
                  ELSE LET s == CHOOSE x \in S : TRUE
                       IN PriceOr(s, 0) * mock_positions[s].quantity + Sum(S \ {s})
    IN Sum(DOMAIN mock_positions)

get_balance ==
    [cash_balance |-> mock_balance,
     total_position_value |-> total_position_value_of_broker,
     total_asset_value |-> mock_balance + total_position_value_of_broker]

(* get_stock_price: the quote, or an error for an unknown code *)
get_stock_price(stock_code) ==
    IF stock_code \in DOMAIN mock_prices
    THEN [error |-> FALSE, current_price |-> mock_prices[stock_code]]
    ELSE [error |-> TRUE]

(* place_order (broker_adapter.py:146-231) for an order without a limit    *)
(* price: the result and the broker's next state.  The order counter       *)
(* advances on every call; only 'BUY'/'MARKET_BUY' test and take cash and  *)
(* add to the position book, only 'SELL'/'MARKET_SELL' test and take       *)
(* holdings; any other order type is recorded as FILLED with no effect on  *)
(* cash or holdings.                                                       *)
Failed(error) ==
    [success |-> FALSE, error |-> error, order_id |-> 0,
     execution_price |-> 0, total_amount |-> 0,
     balance |-> mock_balance, book |-> mock_positions, orders |-> mock_orders]

place_order(stock_code, order_type, quantity) ==
    LET order_id == order_counter
        execution_price == PriceOr(stock_code, 100)
        total_amount == execution_price * quantity
        held == stock_code \in DOMAIN mock_positions
        Filled(balance, book) ==
            [success |-> TRUE, error |-> "", order_id |-> order_id,
             execution_price |-> execution_price, total_amount |-> total_amount,
             balance |-> balance, book |-> book,
             orders |-> Append(mock_orders,
                          [order_id |-> order_id, stock_code |-> stock_code,
                           order_type |-> order_type, quantity |-> quantity,
                           price |-> execution_price, status |-> "FILLED"])]
    IN
    IF order_type \in {"BUY", "MARKET_BUY"}
    THEN IF total_amount > mock_balance
         THEN Failed("insufficient_funds")
         ELSE LET old == IF held THEN mock_positions[stock_code]
                         ELSE [quantity |-> 0, avg_cost |-> 0]
                  new_quantity == old.quantity + quantity
                  new_avg == IF held
                             THEN (old.avg_cost * old.quantity
                                     + execution_price * 100 * quantity) \div new_quantity
                             ELSE execution_price * 100
              IN Filled(mock_balance - total_amount,
                        [s \in (DOMAIN mock_positions) \cup {stock_code} |->
                            IF s = stock_code
                            THEN [quantity |-> new_quantity, avg_cost |-> new_avg]
                            ELSE mock_positions[s]])
    ELSE IF order_type \in {"SELL", "MARKET_SELL"}
    THEN IF (~held) \/ mock_positions[stock_code].quantity < quantity
         THEN Failed("insufficient_holdings")
         ELSE LET left == mock_positions[stock_code].quantity - quantity
              IN Filled(mock_balance + total_amount,
                        [s \in (DOMAIN mock_positions)
                                 \ (IF left = 0 THEN {stock_code} ELSE {}) |->
                            IF s = stock_code
                            THEN [mock_positions[s] EXCEPT !.quantity = left]
                            ELSE mock_positions[s]])
    ELSE Filled(mock_balance, mock_positions)

(* update_mock_price (broker_adapter.py:258-262) *)
UpdateMockPrice(stock_code, new_price) ==
    /\ stock_code \in DOMAIN mock_prices
    /\ mock_prices[stock_code] # new_price
    /\ mock_prices' = [mock_prices EXCEPT ![stock_code] = new_price]
    /\ logged' = <<>>
    /\ lastCheck' = NoCheck
    /\ UNCHANGED <<mock_balance, mock_positions, mock_orders, order_counter>>
    /\ UNCHANGED <<now, tzOffset, params, trade_records, positions, emergency_stop,
                   recent_signals, lastAccept>>
    /\ UNCHANGED <<engineVars, loopVars>>

----------------------------------------------------------------------------
(* The evaluating engine (services/strategy_engine.py), run one cycle at a *)
(* time by POST /run-cycle (routes/strategy.py:124-150).  Each request is  *)
(* served on its own thread; cyc[r] is the handler's position and locals.  *)

MaxRequests == 2        \* run-cycle requests that may be in flight together
MaxCycles == 2          \* run-cycle requests served in all
MaxFills == 2           \* orders the engine gets filled and records
Reqs == 1 .. MaxRequests

LotSize == 1000

(* MockSignalProcessor.mock_signals (signal_processor.py:182-205); ratio    *)
(* and money flow in hundredths.                                           *)
MockSignals ==
    << [stock_code |-> "2330.TW", volume_shares |-> 15000,
        volume_ratio |-> 250, money_flow |-> 5000],
       [stock_code |-> "2454.TW", volume_shares |-> 8000,
        volume_ratio |-> 180, money_flow |-> 3000] >>

(* What fetch_yellow_candle_signals may return.  The mock processor gives  *)
(* its list; SignalProcessor (signal_processor.py:24-63, installed by PUT  *)
(* /broker-config with signal_processor_type other than 'mock') gives what *)
(* the screener answers, or nothing on an error: here one signal whose     *)
(* three measures are each at, or just below, the default thresholds.      *)
ScreenerSignal(volume_shares, volume_ratio, money_flow) ==
    [stock_code |-> "2454.TW", volume_shares |-> volume_shares,
     volume_ratio |-> volume_ratio, money_flow |-> money_flow]

FetchedLists ==
    {<< >>, MockSignals} \cup
    {<<ScreenerSignal(v, q, m)>> : v \in {999, 1000}, q \in {149, 150},
                                  m \in {1999, 2000}}

NoWrite == [id |-> 0 - 1]

IdleCyc ==
    [pc |-> "idle", was_running |-> FALSE, p |-> NoRow, signals |-> <<>>,
     total_asset_value |-> 0, current_position_value |-> 0, held |-> {},
     buy_decisions |-> <<>>, sell_decisions |-> <<>>, write |-> NoWrite,
     buy_executed |-> 0, sell_executed |-> 0]

InFlight == {r \in Reqs : cyc[r].pc # "idle"}

(* calculate_order_quantity rounding the number of lots up *)
calculate_order_quantity_rounded_up(order_value, stock_price) ==
    IF stock_price <= 0 THEN 0
    ELSE ((order_value + stock_price * LotSize - 1) \div (stock_price * LotSize)) * LotSize

(* calculate_order_quantity counting shares instead of whole lots *)
calculate_order_quantity_shares(order_value, stock_price) ==
    IF stock_price <= 0 THEN 0 ELSE order_value \div stock_price

(* RiskManager.calculate_order_quantity (risk_manager.py:251-261); int()   *)
(* drops the fraction of the quotient, towards zero.                       *)
calculate_order_quantity(order_value, stock_price) ==
    IF stock_price <= 0 THEN 0
    ELSE LET lot_cost == stock_price * LotSize
             lots == IF order_value >= 0 THEN order_value \div lot_cost
                     ELSE 0 - ((0 - order_value) \div lot_cost)
         IN lots * LotSize

(* check_stop_loss_take_profit with strict comparisons *)
check_stop_loss_take_profit_strict(avg_cost, current_price, take_profit_pct, stop_loss_pct) ==
    IF avg_cost = 0 THEN ""
    ELSE LET diff == current_price * 100 - avg_cost
         IN IF diff * 10000 > take_profit_pct * avg_cost THEN "TAKE_PROFIT"
            ELSE IF diff * 10000 < stop_loss_pct * avg_cost THEN "STOP_LOSS"
            ELSE ""

(* RiskManager.check_stop_loss_take_profit (risk_manager.py:232-249).      *)
(* avg_cost is in hundredths of a currency unit, the two percentages in    *)
(* hundredths of a percent; (price - avg)/avg*100 >= pct is compared       *)
(* cross-multiplied (avg_cost > 0).                                        *)
check_stop_loss_take_profit(avg_cost, current_price, take_profit_pct, stop_loss_pct) ==
    IF avg_cost = 0 THEN ""
    ELSE LET diff == current_price * 100 - avg_cost
         IN IF diff * 10000 >= take_profit_pct * avg_cost THEN "TAKE_PROFIT"
            ELSE IF diff * 10000 <= stop_loss_pct * avg_cost THEN "STOP_LOSS"
            ELSE ""

(* _check_signal_criteria without its money-flow test *)
check_signal_criteria_no_money_flow(signal, p) ==
    /\ ~(signal.volume_shares < p.min_volume_shares)
    /\ ~(signal.volume_ratio < p.min_volume_ratio)

(* _check_signal_criteria (strategy_engine.py:148-173) *)
check_signal_criteria(signal, p) ==
    /\ ~(signal.volume_shares < p.min_volume_shares)
    /\ ~(signal.volume_ratio < p.min_volume_ratio)
    /\ ~(signal.money_flow < p.min_money_flow)

(* _record_trade (strategy_engine.py:290-329): the row added.  fee, tax    *)
(* and net_amount are in thousandths of a currency unit: fee = amount x    *)
(* 0.001425 and tax = amount x 0.003, which is exact in thousandths for    *)
(* the amounts of whole lots.  trade_date is the column default, utcnow;   *)
(* local_time is not a column: it records the local time at which the      *)
(* trade was executed.                                                     *)
FeeRatePpm == 1425
TaxRatePpm == 3000

(* _record_trade charging the transaction tax on buys as on sells *)
NewTradeRecord_taxed_buy(stock_code, trade_type, quantity, trigger_reason, order_result) ==
    LET total_amount == order_result.execution_price * quantity
        fee == (total_amount * FeeRatePpm) \div 1000
        tax == (total_amount * TaxRatePpm) \div 1000
    IN [stock_code |-> stock_code, trade_type |-> trade_type,
        quantity |-> quantity, price |-> order_result.execution_price,
        total_amount |-> total_amount, fee |-> fee, tax |-> tax,
        net_amount |-> IF trade_type = "SELL"
                       THEN total_amount * 1000 - fee - tax
                       ELSE 0 - (total_amount * 1000 + fee + tax),
        trigger_reason |-> trigger_reason, order_id |-> order_result.order_id,
        trade_date |-> UtcNow, status |-> "COMPLETED", local_time |-> now]

NewTradeRecord(stock_code, trade_type, quantity, trigger_reason, order_result) ==
    LET total_amount == order_result.execution_price * quantity
        fee == (total_amount * FeeRatePpm) \div 1000
        tax == IF trade_type = "SELL" THEN (total_amount * TaxRatePpm) \div 1000 ELSE 0
    IN [stock_code |-> stock_code, trade_type |-> trade_type,
        quantity |-> quantity, price |-> order_result.execution_price,
        total_amount |-> total_amount, fee |-> fee, tax |-> tax,
        net_amount |-> IF trade_type = "SELL"
                       THEN total_amount * 1000 - fee - tax
                       ELSE 0 - (total_amount * 1000 + fee),
        trigger_reason |-> trigger_reason, order_id |-> order_result.order_id,
        trade_date |-> UtcNow, status |-> "COMPLETED", local_time |-> now]

(* position_write taking the price of the last buy for the average cost *)
position_write_last_price(stock_code, quantity, price) ==
    IF ActiveIds(stock_code) # {}
    THEN [id |-> FirstActive(stock_code),
          quantity |-> positions[FirstActive(stock_code)].quantity + quantity,
          avg_cost |-> price * 100, stock_code |-> stock_code]
    ELSE [id |-> 0, quantity |-> quantity, avg_cost |-> price * 100,
          stock_code |-> stock_code]

(* _update_position_after_buy (strategy_engine.py:331-365) in its two      *)
(* parts.  position_write is the query for the active row of the stock     *)
(* (line 339) and what the function then prepares from the row it read:    *)
(* new values for that row, or a new row.  commit_position is the commit   *)
(* (line 360): the INSERT, or the UPDATE of the two changed columns.       *)
(* avg_cost keeps the two decimals of its column.                          *)
position_write(stock_code, quantity, price) ==
    IF ActiveIds(stock_code) # {}
    THEN LET i == FirstActive(stock_code)
             new_quantity == positions[i].quantity + quantity
         IN [id |-> i, quantity |-> new_quantity,
             avg_cost |-> (positions[i].avg_cost * positions[i].quantity
                             + price * 100 * quantity) \div new_quantity,
             stock_code |-> stock_code]
    ELSE [id |-> 0, quantity |-> quantity, avg_cost |-> price * 100,
          stock_code |-> stock_code]

commit_position(w) ==
    IF w.id = 0
    THEN Append(positions,
                [stock_code |-> w.stock_code, quantity |-> w.quantity,
                 avg_cost |-> w.avg_cost, market_value |-> NullValue,
                 is_active |-> TRUE])
    ELSE [positions EXCEPT ![w.id].quantity = w.quantity,
                           ![w.id].avg_cost = w.avg_cost]

(* _update_position_after_buy run without interruption *)
update_position_after_buy(stock_code, quantity, price) ==
    commit_position(position_write(stock_code, quantity, price))

(* _update_position_after_sell (strategy_engine.py:367-379) *)
update_position_after_sell(position_id) ==
    IF position_id \in DOMAIN positions
    THEN [positions EXCEPT ![position_id].is_active = FALSE]
    ELSE positions

(* Where a handler goes once the signals are evaluated / the buys are done *)
AfterEvaluate(signals, buy_decisions) ==
    IF signals # <<>> THEN "evaluate_signal"
    ELSE IF buy_decisions # <<>> THEN "execute_buy" ELSE "monitor"

(* routes/strategy.py:128-133: the handler reads is_running and, when the  *)
(* engine is not running, sets it for the duration of the cycle.           *)
RunCycleBegin(r) ==
    /\ cyc[r].pc = "idle"
    /\ cyclesBegun < MaxCycles
    /\ cyclesBegun' = cyclesBegun + 1
    /\ cyc' = [cyc EXCEPT ![r] = [IdleCyc EXCEPT !.pc = "evaluate_buy",
                                                 !.was_running = is_running]]
    /\ is_running' = TRUE
    /\ logged' = <<>>
    /\ lastCheck' = NoCheck
    /\ UNCHANGED <<signal_history, submitted>>
    /\ UNCHANGED <<now, tzOffset, params, trade_records, positions, emergency_stop,
                   recent_signals, lastAccept>>
    /\ UNCHANGED <<brokerVars, loopVars>>

(* evaluate_buy_signals letting a failed fetch end the whole cycle *)
EvaluateBuySignals_fetch_fatal(r, fetched) ==
    /\ cyc[r].pc = "evaluate_buy"
    /\ IF ~is_running
       THEN /\ cyc' = [cyc EXCEPT ![r].pc = "monitor"]
            /\ UNCHANGED <<params, signal_history>>
       ELSE LET p == IF params.row THEN params ELSE DefaultParameters
                bal == get_balance
            IN /\ params' = p
               /\ IF (~p.is_active) \/ fetched = <<>>
                  THEN /\ cyc' = [cyc EXCEPT ![r].pc = IF fetched = <<>> THEN "end"
                                                       ELSE "monitor"]
                       /\ UNCHANGED signal_history
                  ELSE /\ signal_history' = signal_history \cup
                            {[stock_code |-> fetched[i].stock_code,
                              processed |-> FALSE] : i \in DOMAIN fetched}
                       /\ cyc' = [cyc EXCEPT
                             ![r].pc = "evaluate_signal",
                             ![r].p = p,
                             ![r].signals = fetched,
                             ![r].total_asset_value = bal.total_asset_value,
                             ![r].current_position_value = bal.total_position_value,
                             ![r].held = DOMAIN mock_positions]
    /\ logged' = <<>>
    /\ lastCheck' = NoCheck
    /\ UNCHANGED <<is_running, submitted, cyclesBegun>>
    /\ UNCHANGED <<now, tzOffset, trade_records, positions, emergency_stop,
                   recent_signals, lastAccept>>
    /\ UNCHANGED <<brokerVars, loopVars>>

(* evaluate_buy_signals up to its loop (strategy_engine.py:43-71).         *)
(* load_trading_parameters creates the default row when there is none.     *)
(* fetched: what fetch_yellow_candle_signals returned (the mock list, or   *)
(* nothing).  process_signals saves one SignalHistory row per signal.      *)
EvaluateBuySignals(r, fetched) ==
    /\ cyc[r].pc = "evaluate_buy"
    /\ IF ~is_running
       THEN /\ cyc' = [cyc EXCEPT ![r].pc = "monitor"]
            /\ UNCHANGED <<params, signal_history>>
       ELSE LET p == IF params.row THEN params ELSE DefaultParameters
                bal == get_balance
            IN /\ params' = p
               /\ IF (~p.is_active) \/ fetched = <<>>
                  THEN /\ cyc' = [cyc EXCEPT ![r].pc = "monitor"]
                       /\ UNCHANGED signal_history
                  ELSE /\ signal_history' = signal_history \cup
                            {[stock_code |-> fetched[i].stock_code,
                              processed |-> FALSE] : i \in DOMAIN fetched}
                       /\ cyc' = [cyc EXCEPT
                             ![r].pc = "evaluate_signal",
                             ![r].p = p,
                             ![r].signals = fetched,
                             ![r].total_asset_value = bal.total_asset_value,
                             ![r].current_position_value = bal.total_position_value,
                             ![r].held = DOMAIN mock_positions]
    /\ logged' = <<>>
    /\ lastCheck' = NoCheck
    /\ UNCHANGED <<is_running, submitted, cyclesBegun>>
    /\ UNCHANGED <<now, tzOffset, trade_records, positions, emergency_stop,
                   recent_signals, lastAccept>>
    /\ UNCHANGED <<brokerVars, loopVars>>

(* _evaluate_single_buy_signal (strategy_engine.py:88-146) on the next     *)
(* signal of the list: already held at the broker, signal criteria, quote, *)
(* risk check, order quantity.  When the risk check is called, lastCheck   *)
(* keeps what it was asked and what it answered; the call has returned     *)
(* by the end of the step.                                                 *)
EvaluateSingleBuySignal(r) ==
    /\ cyc[r].pc = "evaluate_signal"
    /\ LET signal == Head(cyc[r].signals)
           rest == Tail(cyc[r].signals)
           stock_code == signal.stock_code
           p == cyc[r].p
           quote == get_stock_price(stock_code)
           reaches_check == /\ stock_code \notin cyc[r].held
                            /\ check_signal_criteria(signal, p)
                            /\ ~quote.error
           out == pre_trade_risk_check(stock_code, p.per_order_value,
                      cyc[r].current_position_value, cyc[r].total_asset_value,
                      TRUE, TRUE)
           quantity == calculate_order_quantity(p.per_order_value, quote.current_price)
           decided == reaches_check /\ out.allow /\ quantity > 0
           decisions == IF decided
                        THEN Append(cyc[r].buy_decisions,
                                 [stock_code |-> stock_code, action |-> "BUY",
                                  quantity |-> quantity, order_type |-> "MARKET",
                                  current_price |-> quote.current_price,
                                  order_value |-> p.per_order_value])
                        ELSE cyc[r].buy_decisions
       IN /\ cyc' = [cyc EXCEPT ![r].signals = rest,
                                ![r].buy_decisions = decisions,
                                ![r].pc = AfterEvaluate(rest, decisions)]
          /\ IF reaches_check
             THEN /\ recent_signals' = out.recent_signals
                  /\ logged' = out.events
                  /\ lastAccept' = IF out.allow
                                   THEN [lastAccept EXCEPT ![stock_code] = now]
                                   ELSE lastAccept
             ELSE /\ logged' = <<>>
                  /\ UNCHANGED <<recent_signals, lastAccept>>
          /\ lastCheck' = IF reaches_check
                          THEN [called |-> FALSE, by |-> r, stock_code |-> stock_code,
                                allow |-> out.allow, reason |-> out.reason]
                          ELSE NoCheck
    /\ UNCHANGED <<is_running, signal_history, submitted, cyclesBegun>>
    /\ UNCHANGED <<now, tzOffset, params, trade_records, positions, emergency_stop>>
    /\ UNCHANGED <<brokerVars, loopVars>>

(* execute_buy_decision / execute_sell_decision taking every answer of the *)
(* broker for a fill                                                       *)
order_filled_unchecked(order_result) == TRUE

(* The test execute_buy_decision / execute_sell_decision make of the       *)
(* broker's answer (strategy_engine.py:191, 273)                           *)
order_filled(order_result) == order_result.success

(* One broker.place_order call made by a cycle *)
Submission(r, side, stock_code, quantity, position_id, result) ==
    [req |-> r, side |-> side, stock_code |-> stock_code, quantity |-> quantity,
     position_id |-> position_id, success |-> result.success]

(* execute_buy_decision (strategy_engine.py:175-206) on the next decision: *)
(* place the order and, when the broker fills it, record the trade and     *)
(* read the position to update; the update is committed by the next step   *)
(* of the request.                                                         *)
ExecuteBuyDecision(r) ==
    /\ cyc[r].pc = "execute_buy"
    /\ LET d == Head(cyc[r].buy_decisions)
           rest == Tail(cyc[r].buy_decisions)
           res == place_order(d.stock_code, d.order_type, d.quantity)
       IN /\ order_filled(res) => Len(trade_records) < MaxFills
          /\ order_counter' = order_counter + 1
          /\ mock_balance' = res.balance
          /\ mock_positions' = res.book
          /\ mock_orders' = res.orders
          /\ submitted' = Append(submitted,
                              Submission(r, "BUY", d.stock_code, d.quantity, 0, res))
          /\ IF order_filled(res)
             THEN /\ trade_records' = Append(trade_records,
                        NewTradeRecord(d.stock_code, "BUY", d.quantity,
                                       "YELLOW_CANDLE_BUY", res))
                  /\ cyc' = [cyc EXCEPT
                        ![r].buy_decisions = rest,
                        ![r].write = position_write(d.stock_code, d.quantity,
                                                    res.execution_price),
                        ![r].pc = "update_position"]
             ELSE /\ UNCHANGED trade_records
                  /\ cyc' = [cyc EXCEPT ![r].buy_decisions = rest,
                                        ![r].pc = IF rest # <<>> THEN "execute_buy"
                                                  ELSE "monitor"]
    /\ logged' = <<>>
    /\ lastCheck' = NoCheck
    /\ UNCHANGED <<is_running, signal_history, cyclesBegun, mock_prices>>
    /\ UNCHANGED <<now, tzOffset, params, positions, emergency_stop, recent_signals,
                   lastAccept>>
    /\ UNCHANGED loopVars

(* The commit of _update_position_after_buy (strategy_engine.py:360), with *)
(* which execute_buy_decision returns True.                                *)
CommitPositionAfterBuy(r) ==
    /\ cyc[r].pc = "update_position"
    /\ positions' = commit_position(cyc[r].write)
    /\ cyc' = [cyc EXCEPT ![r].write = NoWrite,
                          ![r].buy_executed = @ + 1,
                          ![r].pc = IF cyc[r].buy_decisions # <<>>
                                    THEN "execute_buy" ELSE "monitor"]
    /\ logged' = <<>>
    /\ lastCheck' = NoCheck
    /\ UNCHANGED <<is_running, signal_history, submitted, cyclesBegun>>
    /\ UNCHANGED <<now, tzOffset, params, trade_records, emergency_stop,
                   recent_signals, lastAccept>>
    /\ UNCHANGED <<brokerVars, loopVars>>

(* monitor_positions_for_sell (strategy_engine.py:208-256): one sell       *)
(* decision, for the full quantity, per active position whose quote meets  *)
(* the take-profit or the stop-loss condition; in id order.                *)
SellDecisions(p) ==
    LET RECURSIVE Scan(_)
        Scan(i) ==
            IF i > Len(positions) THEN <<>>
            ELSE LET pos == positions[i]
                     quote == get_stock_price(pos.stock_code)
                     reason == IF pos.is_active /\ ~quote.error
                               THEN check_stop_loss_take_profit(pos.avg_cost,
                                        quote.current_price, p.take_profit_pct,
                                        p.stop_loss_pct)
                               ELSE ""
                 IN IF reason = "" THEN Scan(i + 1)
                    ELSE <<[stock_code |-> pos.stock_code, action |-> "SELL",
                            quantity |-> pos.quantity, order_type |-> "MARKET",
                            current_price |-> quote.current_price,
                            avg_cost |-> pos.avg_cost, sell_reason |-> reason,
                            position_id |-> i]>> \o Scan(i + 1)
    IN Scan(1)

MonitorPositionsForSell(r) ==
    /\ cyc[r].pc = "monitor"
    /\ IF ~is_running
       THEN /\ cyc' = [cyc EXCEPT ![r].pc = "end"]
            /\ UNCHANGED params
       ELSE LET p == IF params.row THEN params ELSE DefaultParameters
                decisions == SellDecisions(p)
            IN /\ params' = p
               /\ cyc' = [cyc EXCEPT ![r].sell_decisions = decisions,
                                     ![r].pc = IF decisions # <<>>
                                               THEN "execute_sell" ELSE "end"]
    /\ logged' = <<>>
    /\ lastCheck' = NoCheck
    /\ UNCHANGED <<is_running, signal_history, submitted, cyclesBegun>>
    /\ UNCHANGED <<now, tzOffset, trade_records, positions, emergency_stop,
                   recent_signals, lastAccept>>
    /\ UNCHANGED <<brokerVars, loopVars>>

(* execute_sell_decision (strategy_engine.py:258-288) on the next decision *)
ExecuteSellDecision(r) ==
    /\ cyc[r].pc = "execute_sell"
    /\ LET d == Head(cyc[r].sell_decisions)
           rest == Tail(cyc[r].sell_decisions)
           res == place_order(d.stock_code, "MARKET_SELL", d.quantity)
       IN /\ order_filled(res) => Len(trade_records) < MaxFills
          /\ order_counter' = order_counter + 1
          /\ mock_balance' = res.balance
          /\ mock_positions' = res.book
          /\ mock_orders' = res.orders
          /\ submitted' = Append(submitted,
                              Submission(r, "SELL", d.stock_code, d.quantity,
                                         d.position_id, res))
          /\ IF order_filled(res)
             THEN /\ trade_records' = Append(trade_records,
                        NewTradeRecord(d.stock_code, "SELL", d.quantity,
                                       d.sell_reason, res))
                  /\ positions' = update_position_after_sell(d.position_id)
             ELSE UNCHANGED <<trade_records, positions>>
          /\ cyc' = [cyc EXCEPT ![r].sell_decisions = rest,
                                ![r].sell_executed = IF order_filled(res)
                                                     THEN @ + 1 ELSE @,
                                ![r].pc = IF rest # <<>> THEN "execute_sell"
                                          ELSE "end"]
    /\ logged' = <<>>
    /\ lastCheck' = NoCheck
    /\ UNCHANGED <<is_running, signal_history, cyclesBegun, mock_prices>>
    /\ UNCHANGED <<now, tzOffset, params, emergency_stop, recent_signals, lastAccept>>
    /\ UNCHANGED loopVars

(* ---- the quote port failing ---- *)
(* No call observed *)
NoCall == [engine |-> "", op |-> "", ret |-> FALSE]

(* What one broker.get_stock_price call may do when the quote service is   *)
(* not reliable: answer, answer {'error': ...}, or raise.                  *)
QuoteOutcomes == {"ok", "error", "raise"}

(* The price_info a caller gets to read: none when the call raised *)
get_stock_price_with(stock_code, outcome) ==
    IF outcome = "ok" THEN get_stock_price(stock_code) ELSE [error |-> TRUE]

QuoteCall(stock_codes, outcomes) ==
    [engine |-> "broker", op |-> "get_stock_price", args |-> stock_codes,
     ret |-> outcomes]

(* _evaluate_single_buy_signal (strategy_engine.py:88-146) when the quote  *)
(* call ends as outcome: an error result returns None at lines 107-109, an *)
(* exception is caught by the function's own except (lines 144-146), which *)
(* returns None as well; evaluate_buy_signals goes on with the next signal.*)
EvaluateSingleBuySignalQuoted(r, outcome) ==
    /\ cyc[r].pc = "evaluate_signal"
    /\ LET signal == Head(cyc[r].signals)
           rest == Tail(cyc[r].signals)
           stock_code == signal.stock_code
           p == cyc[r].p
           asks_quote == /\ stock_code \notin cyc[r].held
                         /\ check_signal_criteria(signal, p)
           quote == get_stock_price_with(stock_code, outcome)
           reaches_check == asks_quote /\ ~quote.error
           out == pre_trade_risk_check(stock_code, p.per_order_value,
                      cyc[r].current_position_value, cyc[r].total_asset_value,
                      TRUE, TRUE)
           quantity == calculate_order_quantity(p.per_order_value, quote.current_price)
           decided == reaches_check /\ out.allow /\ quantity > 0
           decisions == IF decided
                        THEN Append(cyc[r].buy_decisions,
                                 [stock_code |-> stock_code, action |-> "BUY",
                                  quantity |-> quantity, order_type |-> "MARKET",
                                  current_price |-> quote.current_price,
                                  order_value |-> p.per_order_value])
                        ELSE cyc[r].buy_decisions
       IN /\ asks_quote \/ outcome = "ok"
          /\ lastCall' = IF asks_quote THEN QuoteCall(<<stock_code>>, <<outcome>>)
                         ELSE NoCall
          /\ cyc' = [cyc EXCEPT ![r].signals = rest,
                                ![r].buy_decisions = decisions,
                                ![r].pc = AfterEvaluate(rest, decisions)]
          /\ IF reaches_check
             THEN /\ recent_signals' = out.recent_signals
                  /\ logged' = out.events
                  /\ lastAccept' = IF out.allow
                                   THEN [lastAccept EXCEPT ![stock_code] = now]
                                   ELSE lastAccept
             ELSE /\ logged' = <<>>
                  /\ UNCHANGED <<recent_signals, lastAccept>>
          /\ lastCheck' = IF reaches_check
                          THEN [called |-> FALSE, by |-> r, stock_code |-> stock_code,
                                allow |-> out.allow, reason |-> out.reason]
                          ELSE NoCheck
    /\ UNCHANGED <<is_running, signal_history, submitted, cyclesBegun>>
    /\ UNCHANGED <<now, tzOffset, params, trade_records, positions, emergency_stop>>
    /\ UNCHANGED <<loop_is_running, start_time, stop_event, threads, current_signals,
                   stopCall>>
    /\ UNCHANGED brokerVars

(* The quote calls monitor_positions_for_sell makes: one per active        *)
(* position, in id order.                                                  *)
ActivePositions == {i \in DOMAIN positions : positions[i].is_active}

QuoteOutcomesOfScan ==
    {f \in [DOMAIN positions -> QuoteOutcomes] :
        \A i \in DOMAIN positions : i \notin ActivePositions => f[i] = "ok"}

(* monitor_positions_for_sell (strategy_engine.py:208-256) when the quote  *)
(* call for position i ends as outcomes[i].  An error result skips the     *)
(* position (lines 224-225); the loop has no except of its own, so an      *)
(* exception raised for any position is caught by the except that wraps    *)
(* the loop (lines 254-256), which returns [].                             *)
SellDecisionsQuoted(p, outcomes) ==
    LET RECURSIVE Scan(_)
        Scan(i) ==
            IF i > Len(positions) THEN <<>>
            ELSE LET pos == positions[i]
                     quote == get_stock_price_with(pos.stock_code, outcomes[i])
                     reason == IF pos.is_active /\ ~quote.error
                               THEN check_stop_loss_take_profit(pos.avg_cost,
                                        quote.current_price, p.take_profit_pct,
                                        p.stop_loss_pct)
                               ELSE ""
                 IN IF reason = "" THEN Scan(i + 1)
                    ELSE <<[stock_code |-> pos.stock_code, action |-> "SELL",
                            quantity |-> pos.quantity, order_type |-> "MARKET",
                            current_price |-> quote.current_price,
                            avg_cost |-> pos.avg_cost, sell_reason |-> reason,
                            position_id |-> i]>> \o Scan(i + 1)
    IN IF \E i \in ActivePositions : outcomes[i] = "raise" THEN <<>> ELSE Scan(1)

MonitorPositionsForSellQuoted(r, outcomes) ==
    /\ cyc[r].pc = "monitor"
    /\ IF ~is_running
       THEN /\ \A i \in DOMAIN positions : outcomes[i] = "ok"
            /\ lastCall' = NoCall
            /\ cyc' = [cyc EXCEPT ![r].pc = "end"]
            /\ UNCHANGED params
       ELSE LET p == IF params.row THEN params ELSE DefaultParameters
                decisions == SellDecisionsQuoted(p, outcomes)
            IN /\ params' = p
               /\ lastCall' = QuoteCall([i \in DOMAIN positions |->
                                            positions[i].stock_code], outcomes)
               /\ cyc' = [cyc EXCEPT ![r].sell_decisions = decisions,
                                     ![r].pc = IF decisions # <<>>
                                               THEN "execute_sell" ELSE "end"]
    /\ logged' = <<>>
    /\ lastCheck' = NoCheck
    /\ UNCHANGED <<is_running, signal_history, submitted, cyclesBegun>>
    /\ UNCHANGED <<now, tzOffset, trade_records, positions, emergency_stop,
                   recent_signals, lastAccept>>
    /\ UNCHANGED <<loop_is_running, start_time, stop_event, threads, current_signals,
                   stopCall>>
    /\ UNCHANGED brokerVars

(* routes/strategy.py:137-144: the handler restores is_running when it had *)
(* found the engine not running, and answers.                              *)
RunCycleEnd(r) ==
    /\ cyc[r].pc = "end"
    /\ is_running' = IF ~cyc[r].was_running THEN FALSE ELSE is_running
    /\ cyc' = [cyc EXCEPT ![r] = IdleCyc]
    /\ logged' = <<>>
    /\ lastCheck' = NoCheck
    /\ UNCHANGED <<signal_history, submitted, cyclesBegun>>
    /\ UNCHANGED <<now, tzOffset, params, trade_records, positions, emergency_stop,
                   recent_signals, lastAccept>>
    /\ UNCHANGED <<brokerVars, loopVars>>

(* POST /start (routes/strategy.py:34-76) with StrategyEngine.start        *)
(* (strategy_engine.py:381-393): refused when the engine is running.       *)
StartStrategy ==
    /\ IF is_running
       THEN /\ lastCall' = [engine |-> "evaluating", op |-> "start", ret |-> FALSE]
            /\ logged' = <<>>
            /\ UNCHANGED is_running
       ELSE /\ lastCall' = [engine |-> "evaluating", op |-> "start", ret |-> TRUE]
            /\ is_running' = TRUE
            /\ logged' = <<LogRow("INFO", "strategy_engine"),
                           LogRow("INFO", "strategy_control")>>
    /\ lastCheck' = NoCheck
    /\ UNCHANGED <<signal_history, cyc, submitted, cyclesBegun>>
    /\ UNCHANGED <<now, tzOffset, params, trade_records, positions, emergency_stop,
                   recent_signals, lastAccept>>
    /\ UNCHANGED <<loop_is_running, start_time, stop_event, threads, current_signals,
                   stopCall>>
    /\ UNCHANGED brokerVars

(* POST /stop (routes/strategy.py:78-101) with StrategyEngine.stop         *)
(* (strategy_engine.py:395-407): refused when the engine is not running.   *)
StopStrategy ==
    /\ IF ~is_running
       THEN /\ lastCall' = [engine |-> "evaluating", op |-> "stop", ret |-> FALSE]
            /\ logged' = <<>>
            /\ UNCHANGED is_running
       ELSE /\ lastCall' = [engine |-> "evaluating", op |-> "stop", ret |-> TRUE]
            /\ is_running' = FALSE
            /\ logged' = <<LogRow("INFO", "strategy_engine")>>
    /\ lastCheck' = NoCheck
    /\ UNCHANGED <<signal_history, cyc, submitted, cyclesBegun>>
    /\ UNCHANGED <<now, tzOffset, params, trade_records, positions, emergency_stop,
                   recent_signals, lastAccept>>
    /\ UNCHANGED <<loop_is_running, start_time, stop_event, threads, current_signals,
                   stopCall>>
    /\ UNCHANGED brokerVars

(* PUT /broker-config (routes/strategy.py:239-275): the global engine is   *)
(* replaced by a new one, with a new mock broker and a new RiskManager.    *)
(* Modelled while no run-cycle request holds the old engine.               *)
UpdateBrokerConfig ==
    /\ Returned
    /\ InFlight = {}
    /\ is_running' = FALSE
    /\ emergency_stop' = FALSE
    /\ recent_signals' = << >>
    /\ lastAccept' = [s \in Stocks |-> Never]
    /\ mock_balance' = InitialBalance
    /\ mock_positions' = << >>
    /\ mock_orders' = << >>
    /\ order_counter' = 1
    /\ mock_prices' = DefaultPrices
    /\ logged' = <<LogRow("INFO", "strategy_config")>>
    /\ lastCheck' = NoCheck
    /\ UNCHANGED <<signal_history, cyc, submitted, cyclesBegun>>
    /\ UNCHANGED <<now, tzOffset, params, trade_records, positions>>
    /\ UNCHANGED loopVars

(* A trade filled and recorded by the engine (_record_trade,               *)
(* strategy_engine.py:290-329), seen from the risk gate: one more          *)
(* TradeRecord row stamped with the current UTC time.  The engine sells    *)
(* only what it bought: a BUY row is followed by the SELL row that closes  *)
(* it.                                                                     *)
NextTradeType == IF Len(trade_records) % 2 = 0 THEN "BUY" ELSE "SELL"

RecordTrade(stock_code) ==
    /\ Returned
    /\ Len(trade_records) < MaxTrades
    /\ trade_records' = Append(trade_records,
            NewTradeRecord(stock_code, NextTradeType, LotSize,
                           IF NextTradeType = "SELL" THEN "TAKE_PROFIT"
                           ELSE "YELLOW_CANDLE_BUY",
                           [execution_price |-> PriceOr(stock_code, 100),
                            order_id |-> Len(trade_records) + 1]))
    /\ logged' = <<>>
    /\ lastCheck' = NoCheck
    /\ UNCHANGED <<now, tzOffset, params, positions, emergency_stop,
                   recent_signals, lastAccept>>
    /\ UNCHANGED <<brokerVars, engineVars, loopVars>>

----------------------------------------------------------------------------
(* The periodic engine (services/strategy_engine_new.py).  start() and     *)
(* stop() are called one after the other by the control path; a loop       *)
(* thread is at "loop" (about to test the while condition), in "cycle"     *)
(* (executing one strategy scan, todo stocks still to look at), in "wait"  *)
(* (inside _stop_event.wait) or "done".  The display strings appended to   *)
(* the engine's trade_records list are not modelled.                       *)

MaxThreads == 2         \* loop threads created in all
MaxSignals == 1         \* entries current_signals may hold
MaxScan == 1            \* stocks a scan returns

Idle == [state |-> "none", found |-> ""]

Alive(t) == threads[t].pc # "done"

(* A faulty variant of start without the is_running test *)
StartUnguarded ==
    /\ stopCall = Idle
    /\ Len(threads) < MaxThreads
    /\ loop_is_running' = TRUE
    /\ start_time' = now
    /\ stop_event' = FALSE
    /\ threads' = Append(threads, [pc |-> "loop", todo |-> 0])
    /\ lastCall' = [engine |-> "periodic", op |-> "start", ret |-> TRUE]
    /\ logged' = <<>>
    /\ lastCheck' = NoCheck
    /\ UNCHANGED <<current_signals, stopCall>>
    /\ UNCHANGED <<now, tzOffset, params, trade_records, positions, emergency_stop,
                   recent_signals, lastAccept>>
    /\ UNCHANGED <<brokerVars, engineVars>>

(* start (strategy_engine_new.py:50-66) *)
Start ==
    /\ stopCall = Idle
    /\ loop_is_running \/ Len(threads) < MaxThreads
    /\ IF loop_is_running
       THEN /\ lastCall' = [engine |-> "periodic", op |-> "start", ret |-> FALSE]
            /\ UNCHANGED <<loop_is_running, start_time, stop_event, threads>>
       ELSE /\ loop_is_running' = TRUE
            /\ start_time' = now
            /\ stop_event' = FALSE
            /\ threads' = Append(threads, [pc |-> "loop", todo |-> 0])
            /\ lastCall' = [engine |-> "periodic", op |-> "start", ret |-> TRUE]
    /\ logged' = <<>>
    /\ lastCheck' = NoCheck
    /\ UNCHANGED <<current_signals, stopCall>>
    /\ UNCHANGED <<now, tzOffset, params, trade_records, positions, emergency_stop,
                   recent_signals, lastAccept>>
    /\ UNCHANGED <<brokerVars, engineVars>>

(* stop (strategy_engine_new.py:68-82) up to the join: the flag is         *)
(* cleared, the event set and, when the tracked thread is alive, the       *)
(* caller blocks in join(timeout=5).                                       *)
Stop ==
    /\ stopCall = Idle
    /\ IF ~loop_is_running
       THEN /\ lastCall' = [engine |-> "periodic", op |-> "stop", ret |-> FALSE]
            /\ UNCHANGED <<loop_is_running, stop_event, stopCall>>
       ELSE /\ loop_is_running' = FALSE
            /\ stop_event' = TRUE
            /\ IF threads # <<>> /\ Alive(Len(threads))
               THEN /\ stopCall' = [state |-> "joining",
                                    found |-> threads[Len(threads)].pc]
                    /\ UNCHANGED lastCall
               ELSE /\ lastCall' = [engine |-> "periodic", op |-> "stop", ret |-> TRUE]
                    /\ UNCHANGED stopCall
    /\ logged' = <<>>
    /\ lastCheck' = NoCheck
    /\ UNCHANGED <<start_time, threads, current_signals>>
    /\ UNCHANGED <<now, tzOffset, params, trade_records, positions, emergency_stop,
                   recent_signals, lastAccept>>
    /\ UNCHANGED <<brokerVars, engineVars>>

(* join(timeout=5) returns: the thread has ended, or it is still inside a  *)
(* scan (network calls) when the five seconds are over.                    *)
JoinReturns == threads[Len(threads)].pc \in {"done", "cycle"}

StopReturn ==
    /\ stopCall.state = "joining"
    /\ JoinReturns
    /\ stopCall' = Idle
    /\ lastCall' = [engine |-> "periodic", op |-> "stop", ret |-> TRUE]
    /\ logged' = <<>>
    /\ lastCheck' = NoCheck
    /\ UNCHANGED <<loop_is_running, start_time, stop_event, threads, current_signals>>
    /\ UNCHANGED <<now, tzOffset, params, trade_records, positions, emergency_stop,
                   recent_signals, lastAccept>>
    /\ UNCHANGED <<brokerVars, engineVars>>

(* _run_strategy (strategy_engine_new.py:84-104) *)
LoopThreadStep(t, pc, todo) ==
    /\ threads' = [threads EXCEPT ![t] = [pc |-> pc, todo |-> todo]]
    /\ logged' = <<>>
    /\ lastCheck' = NoCheck
    /\ UNCHANGED <<loop_is_running, start_time, stop_event, stopCall, lastCall>>
    /\ UNCHANGED <<now, tzOffset, params, trade_records, positions, emergency_stop,
                   recent_signals, lastAccept>>
    /\ UNCHANGED <<brokerVars, engineVars>>

(* while not self._stop_event.is_set(): leave the loop, or begin a cycle   *)
(* whose scan returns n stocks.                                            *)
(* A faulty variant of the loop test that never sees the event *)
ExitsLoopNever == FALSE

ExitsLoop == stop_event

LoopTest(t, n) ==
    /\ threads[t].pc = "loop"
    /\ IF ExitsLoop
       THEN /\ LoopThreadStep(t, "done", 0)
            /\ UNCHANGED current_signals
       ELSE /\ LoopThreadStep(t, "cycle", n)
            /\ UNCHANGED current_signals

(* _execute_type1_strategy, one scanned stock (lines 117-136): a signal is *)
(* appended when the stock meets the user parameters.                      *)
CycleStep(t, meets) ==
    /\ threads[t].pc = "cycle"
    /\ threads[t].todo > 0
    /\ meets => current_signals < MaxSignals
    /\ current_signals' = IF meets THEN current_signals + 1 ELSE current_signals
    /\ LoopThreadStep(t, "cycle", threads[t].todo - 1)

(* A faulty variant of the cycle in which an exception ends the thread *)
CycleRaises_ends_thread(t) ==
    /\ threads[t].pc = "cycle"
    /\ LoopThreadStep(t, "done", threads[t].todo)
    /\ UNCHANGED current_signals

(* An exception is raised inside the scan (the screener call or the look   *)
(* at one stock fails).  _execute_type1_strategy catches it (lines         *)
(* 141-143), or the loop does (lines 102-104): the stocks still to look at *)
(* are abandoned and the thread enters _stop_event.wait; in "wait", todo   *)
(* keeps the number of stocks the scan left aside.                         *)
CycleRaises(t) ==
    /\ threads[t].pc = "cycle"
    /\ LoopThreadStep(t, "wait", threads[t].todo)
    /\ UNCHANGED current_signals

(* the scan is over; the thread enters _stop_event.wait(30).               *)
CycleEnd(t) ==
    /\ threads[t].pc = "cycle"
    /\ threads[t].todo = 0
    /\ LoopThreadStep(t, "wait", 0)
    /\ UNCHANGED current_signals

(* _stop_event.wait returns: the event is set, or the time is over *)
WaitReturn(t) ==
    /\ threads[t].pc = "wait"
    /\ LoopThreadStep(t, "loop", 0)
    /\ UNCHANGED current_signals

----------------------------------------------------------------------------
(* Initial states and specifications                                       *)

(* The Position table the risk gate starts from: an active row with a     *)
(* market value and an active row whose market_value is NULL (the engine   *)
(* never assigns the column).                                              *)
PositionTables ==
    { << [stock_code |-> "2330.TW", quantity |-> 1000, avg_cost |-> 10000,
          market_value |-> 100000, is_active |-> TRUE],
         [stock_code |-> "2454.TW", quantity |-> 1000, avg_cost |-> 10000,
          market_value |-> NullValue, is_active |-> TRUE] >> }

InitClock ==
    /\ now = StartTime
    /\ tzOffset \in TzOffsets

InitRiskManager ==
    /\ emergency_stop = FALSE
    /\ recent_signals = << >>
    /\ lastCheck = NoCheck
    /\ lastAccept = [s \in Stocks |-> Never]

InitBroker ==
    /\ mock_balance = InitialBalance
    /\ mock_positions = << >>
    /\ mock_orders = << >>
    /\ order_counter = 1
    /\ mock_prices = DefaultPrices

InitEngine ==
    /\ is_running = FALSE
    /\ signal_history = {}
    /\ cyc = [r \in Reqs |-> IdleCyc]
    /\ submitted = << >>
    /\ cyclesBegun = 0

InitLoop ==
    /\ loop_is_running = FALSE
    /\ start_time = Never
    /\ stop_event = FALSE
    /\ threads = << >>
    /\ current_signals = 0
    /\ stopCall = Idle
    /\ lastCall = NoCall

(* ---- the risk gate ---- *)
InitRisk ==
    /\ InitClock /\ InitRiskManager /\ InitBroker /\ InitEngine /\ InitLoop
    /\ params \in {NoRow, [DefaultParameters EXCEPT !.max_daily_trades = MaxTrades]}
    /\ trade_records = << >>
    /\ positions \in PositionTables
    /\ logged = << >>

OrderValues == {200000}
PositionsValues == {800000, 900000}
AssetValues == {0, 1000000, 1500000}
LoadOutcomes == {<<TRUE, TRUE>>, <<TRUE, FALSE>>, <<FALSE, TRUE>>}
RiskUpdates == {[is_active |-> TRUE, max_daily_trades |-> MaxTrades]}

NextRisk ==
    \/ Tick
    \/ \E s \in Stocks, ov \in OrderValues, cpv \in PositionsValues,
          tav \in AssetValues, ld \in LoadOutcomes :
            PreTradeRiskCheck(s, ov, cpv, tav, ld[1], ld[2])
    \/ ReturnCheck
    \/ SetEmergencyStop
    \/ ResetEmergencyStop
    \/ EmergencyStopRoute
    \/ \E data \in RiskUpdates : UpdateTradingParameters(data)
    \/ RecordTrade("2330.TW")
    \/ UpdateBrokerConfig

SpecRisk == InitRisk /\ [][NextRisk]_vars

(* ---- starting and stopping the engines ---- *)
InitControl ==
    /\ now = StartTime /\ tzOffset = 0
    /\ InitRiskManager /\ InitBroker /\ InitEngine /\ InitLoop
    /\ params = DefaultParameters
    /\ trade_records = << >>
    /\ positions = << >>
    /\ logged = << >>

NextControl ==
    \/ Tick
    \/ Start
    \/ Stop
    \/ StopReturn
    \/ \E t \in DOMAIN threads, n \in 0..MaxScan : LoopTest(t, n)
    \/ \E t \in DOMAIN threads, meets \in BOOLEAN : CycleStep(t, meets)
    \/ \E t \in DOMAIN threads : CycleRaises(t)
    \/ \E t \in DOMAIN threads : CycleEnd(t)
    \/ \E t \in DOMAIN threads : WaitReturn(t)
    \/ StartStrategy
    \/ StopStrategy

SpecControl == InitControl /\ [][NextControl]_vars

(* ---- run-cycle requests served concurrently ---- *)
(* The ledger holds a position opened in an earlier session (the tables    *)
(* persist, the mock broker starts empty); per_order_value has been set to *)
(* 200000.                                                                 *)
InitCycle ==
    /\ now = StartTime /\ tzOffset = 0
    /\ InitRiskManager /\ InitBroker /\ InitEngine /\ InitLoop
    /\ params = [DefaultParameters EXCEPT !.per_order_value = 200000]
    /\ trade_records = << >>
    /\ positions = << [stock_code |-> "2330.TW", quantity |-> 1000,
                       avg_cost |-> 40000, market_value |-> NullValue,
                       is_active |-> TRUE] >>
    /\ logged = << >>

(* The quote of 2454.TW over the session: from 800 down to 200, where one  *)
(* lot costs per_order_value, then up to 220, ten per cent above 200.      *)
NextQuote(price) == IF price = 800 THEN 200 ELSE 220

NextCycle ==
    \/ \E r \in Reqs : RunCycleBegin(r)
    \/ \E r \in Reqs, fetched \in FetchedLists : EvaluateBuySignals(r, fetched)
    \/ \E r \in Reqs : EvaluateSingleBuySignal(r)
    \/ \E r \in Reqs : ExecuteBuyDecision(r)
    \/ \E r \in Reqs : CommitPositionAfterBuy(r)
    \/ \E r \in Reqs : MonitorPositionsForSell(r)
    \/ \E r \in Reqs : ExecuteSellDecision(r)
    \/ \E r \in Reqs : RunCycleEnd(r)
    \/ UpdateMockPrice("2454.TW", NextQuote(mock_prices["2454.TW"]))

SpecCycle == InitCycle /\ [][NextCycle]_vars

(* ---- run-cycle requests while the quote service is not reliable ---- *)
NextQuoted ==
    \/ \E r \in Reqs : RunCycleBegin(r)
    \/ \E r \in Reqs : EvaluateBuySignals(r, MockSignals)
    \/ \E r \in Reqs, outcome \in QuoteOutcomes : EvaluateSingleBuySignalQuoted(r, outcome)
    \/ \E r \in Reqs : ExecuteBuyDecision(r)
    \/ \E r \in Reqs : CommitPositionAfterBuy(r)
    \/ \E r \in Reqs, outcomes \in QuoteOutcomesOfScan :
           MonitorPositionsForSellQuoted(r, outcomes)
    \/ \E r \in Reqs : ExecuteSellDecision(r)
    \/ \E r \in Reqs : RunCycleEnd(r)
    \/ UpdateMockPrice("2454.TW", NextQuote(mock_prices["2454.TW"]))

SpecQuoted == InitCycle /\ [][NextQuoted]_vars

(* ---- cycles that approve several buys ---- *)
(* As InitCycle, with the limits an operator has stored through PUT        *)
(* /parameters: one trade a day and 300000 of capital, with orders of      *)
(* 200000.  Both stocks of the mock signal list come to be quoted at 200,  *)
(* where one lot costs the order value.                                    *)
InitBatch ==
    /\ now = StartTime /\ tzOffset = 0
    /\ InitRiskManager /\ InitBroker /\ InitEngine /\ InitLoop
    /\ params = [DefaultParameters EXCEPT !.per_order_value = 200000,
                                          !.max_total_position = 300000,
                                          !.max_daily_trades = 1]
    /\ trade_records = << >>
    /\ positions = << [stock_code |-> "2330.TW", quantity |-> 1000,
                       avg_cost |-> 40000, market_value |-> NullValue,
                       is_active |-> TRUE] >>
    /\ logged = << >>

NextBatch ==
    \/ \E r \in Reqs : RunCycleBegin(r)
    \/ \E r \in Reqs : EvaluateBuySignals(r, MockSignals)
    \/ \E r \in Reqs : EvaluateSingleBuySignal(r)
    \/ \E r \in Reqs : ExecuteBuyDecision(r)
    \/ \E r \in Reqs : CommitPositionAfterBuy(r)
    \/ \E r \in Reqs : MonitorPositionsForSell(r)
    \/ \E r \in Reqs : ExecuteSellDecision(r)
    \/ \E r \in Reqs : RunCycleEnd(r)
    \/ \E s \in Stocks : UpdateMockPrice(s, 200)

SpecBatch == InitBatch /\ [][NextBatch]_vars

(* ---- cycles on a new installation ---- *)
(* As InitCycle, with no position in the ledger: every position and every  *)
(* trade there will be comes from the engine's own orders on this broker.  *)
InitFresh ==
    /\ now = StartTime /\ tzOffset = 0
    /\ InitRiskManager /\ InitBroker /\ InitEngine /\ InitLoop
    /\ params = [DefaultParameters EXCEPT !.per_order_value = 200000]
    /\ trade_records = << >>
    /\ positions = << >>
    /\ logged = << >>

SpecFresh == InitFresh /\ [][NextCycle]_vars

(* ---- the two commits of a filled buy, either of which can fail ---- *)
(* _record_trade and _update_position_after_buy each end in their own      *)
(* db.session.commit() inside their own try block; on an exception each    *)
(* logs, rolls back and returns, and execute_buy_decision goes on to the   *)
(* next statement and returns True (strategy_engine.py:191-199, 325-329,   *)
(* 360-365).                                                               *)
(* execute_buy_decision up to the return of _record_trade, whose commit    *)
(* succeeds (recorded) or raises and is rolled back.                       *)
ExecuteBuyDecisionStoring(r, recorded) ==
    /\ cyc[r].pc = "execute_buy"
    /\ LET d == Head(cyc[r].buy_decisions)
           rest == Tail(cyc[r].buy_decisions)
           res == place_order(d.stock_code, d.order_type, d.quantity)
       IN /\ order_filled(res) => Len(submitted) < MaxFills
          /\ ~order_filled(res) => recorded
          /\ order_counter' = order_counter + 1
          /\ mock_balance' = res.balance
          /\ mock_positions' = res.book
          /\ mock_orders' = res.orders
          /\ submitted' = Append(submitted,
                              Submission(r, "BUY", d.stock_code, d.quantity, 0, res))
          /\ IF order_filled(res)
             THEN /\ trade_records' =
                        IF recorded
                        THEN Append(trade_records,
                                 NewTradeRecord(d.stock_code, "BUY", d.quantity,
                                                "YELLOW_CANDLE_BUY", res))
                        ELSE trade_records
                  /\ cyc' = [cyc EXCEPT
                        ![r].buy_decisions = rest,
                        ![r].write = position_write(d.stock_code, d.quantity,
                                                    res.execution_price),
                        ![r].pc = "update_position"]
             ELSE /\ UNCHANGED trade_records
                  /\ cyc' = [cyc EXCEPT ![r].buy_decisions = rest,
                                        ![r].pc = IF rest # <<>> THEN "execute_buy"
                                                  ELSE "monitor"]
    /\ logged' = <<>>
    /\ lastCheck' = NoCheck
    /\ UNCHANGED <<is_running, signal_history, cyclesBegun, mock_prices>>
    /\ UNCHANGED <<now, tzOffset, params, positions, emergency_stop, recent_signals,
                   lastAccept>>
    /\ UNCHANGED loopVars

(* The commit of _update_position_after_buy, which succeeds (committed) or *)
(* raises and is rolled back; execute_buy_decision returns True either way. *)
CommitPositionAfterBuyStoring(r, committed) ==
    /\ cyc[r].pc = "update_position"
    /\ positions' = IF committed THEN commit_position(cyc[r].write) ELSE positions
    /\ cyc' = [cyc EXCEPT ![r].write = NoWrite,
                          ![r].buy_executed = @ + 1,
                          ![r].pc = IF cyc[r].buy_decisions # <<>>
                                    THEN "execute_buy" ELSE "monitor"]
    /\ logged' = <<>>
    /\ lastCheck' = NoCheck
    /\ UNCHANGED <<is_running, signal_history, submitted, cyclesBegun>>
    /\ UNCHANGED <<now, tzOffset, params, trade_records, emergency_stop,
                   recent_signals, lastAccept>>
    /\ UNCHANGED <<brokerVars, loopVars>>

NextStoring ==
    \/ \E r \in Reqs : RunCycleBegin(r)
    \/ \E r \in Reqs, fetched \in FetchedLists : EvaluateBuySignals(r, fetched)
    \/ \E r \in Reqs : EvaluateSingleBuySignal(r)
    \/ \E r \in Reqs, recorded \in BOOLEAN : ExecuteBuyDecisionStoring(r, recorded)
    \/ \E r \in Reqs, committed \in BOOLEAN : CommitPositionAfterBuyStoring(r, committed)
    \/ \E r \in Reqs : MonitorPositionsForSell(r)
    \/ \E r \in Reqs : ExecuteSellDecision(r)
    \/ \E r \in Reqs : RunCycleEnd(r)
    \/ UpdateMockPrice("2454.TW", NextQuote(mock_prices["2454.TW"]))

SpecStoring == InitFresh /\ [][NextStoring]_vars

(* ---- run-cycle requests among POST /start and POST /stop ---- *)
(* The three handlers of routes/strategy.py on the one global engine; a    *)
(* run-cycle request is in flight from its read of is_running (131) to its *)
(* restoring assignment (140), and /start and /stop are served meanwhile.  *)
NextManual ==
    \/ \E r \in Reqs : RunCycleBegin(r)
    \/ \E r \in Reqs : EvaluateBuySignals(r, MockSignals)
    \/ \E r \in Reqs : EvaluateSingleBuySignal(r)
    \/ \E r \in Reqs : ExecuteBuyDecision(r)
    \/ \E r \in Reqs : CommitPositionAfterBuy(r)
    \/ \E r \in Reqs : MonitorPositionsForSell(r)
    \/ \E r \in Reqs : ExecuteSellDecision(r)
    \/ \E r \in Reqs : RunCycleEnd(r)
    \/ UpdateMockPrice("2454.TW", 200)
    \/ StartStrategy
    \/ StopStrategy

SpecManual == InitCycle /\ [][NextManual]_vars

(* ---- run-cycle requests over the hours of a session ---- *)
(* The default engine, whose mock processor returns its list at every      *)
(* cycle, from the same first state; the clock advances, up to the next    *)
(* local midnight, and the quote of 2454.TW falls to 200.                  *)
NextDays ==
    \/ Tick
    \/ \E r \in Reqs : RunCycleBegin(r)
    \/ \E r \in Reqs : EvaluateBuySignals(r, MockSignals)
    \/ \E r \in Reqs : EvaluateSingleBuySignal(r)
    \/ \E r \in Reqs : ExecuteBuyDecision(r)
    \/ \E r \in Reqs : CommitPositionAfterBuy(r)
    \/ \E r \in Reqs : MonitorPositionsForSell(r)
    \/ \E r \in Reqs : ExecuteSellDecision(r)
    \/ \E r \in Reqs : RunCycleEnd(r)
    \/ UpdateMockPrice("2454.TW", 200)

SpecDays == InitCycle /\ [][NextDays]_vars

(* ---- run-cycle requests with the emergency controls ---- *)
(* The default engine serving run-cycle requests while a control path      *)
(* calls set_emergency_stop / reset_emergency_stop on its RiskManager      *)
(* (risk_manager.py:263-273), POST /emergency-stop clears is_active        *)
(* (routes/trading.py:241-263) and PUT /parameters sets it again.          *)
HaltUpdates == {[is_active |-> TRUE]}

NextHalt ==
    \/ \E r \in Reqs : RunCycleBegin(r)
    \/ \E r \in Reqs : EvaluateBuySignals(r, MockSignals)
    \/ \E r \in Reqs : EvaluateSingleBuySignal(r)
    \/ \E r \in Reqs : ExecuteBuyDecision(r)
    \/ \E r \in Reqs : CommitPositionAfterBuy(r)
    \/ \E r \in Reqs : MonitorPositionsForSell(r)
    \/ \E r \in Reqs : ExecuteSellDecision(r)
    \/ \E r \in Reqs : RunCycleEnd(r)
    \/ UpdateMockPrice("2454.TW", 200)
    \/ SetEmergencyStop
    \/ ResetEmergencyStop
    \/ EmergencyStopRoute
    \/ \E data \in HaltUpdates : UpdateTradingParameters(data)

SpecHalt == InitCycle /\ [][NextHalt]_vars

(* ---- functions called on their own ---- *)
(* The first state holds a call with its arguments, lastCall; the one      *)
(* action of the specification makes the call and keeps what it returned.  *)
Call(op, args) == [engine |-> "", op |-> op, args |-> args, returned |-> FALSE]

InitCalled(calls) ==
    /\ now = StartTime /\ tzOffset = 0
    /\ InitRiskManager /\ InitBroker /\ InitEngine
    /\ loop_is_running = FALSE
    /\ start_time = Never
    /\ stop_event = FALSE
    /\ threads = << >>
    /\ current_signals = 0
    /\ stopCall = Idle
    /\ lastCall \in calls
    /\ params = DefaultParameters
    /\ trade_records = << >>
    /\ positions = << >>
    /\ logged = << >>

Returns(ret) ==
    /\ lastCall' = [engine |-> lastCall.engine, op |-> lastCall.op,
                    args |-> lastCall.args, returned |-> TRUE, ret |-> ret]
    /\ logged' = << >>
    /\ lastCheck' = NoCheck
    /\ UNCHANGED <<now, tzOffset, params, trade_records, positions, emergency_stop,
                   recent_signals, lastAccept>>
    /\ UNCHANGED <<brokerVars, engineVars>>
    /\ UNCHANGED <<loop_is_running, start_time, stop_event, threads, current_signals,
                   stopCall>>

(* calculate_order_quantity (risk_manager.py:251-261) over order values    *)
(* around the cost of a lot (per_order_value is validated > 0,             *)
(* routes/trading.py:56-58) and prices that are negative, zero, positive.  *)
SizingOrderValues ==
    {0, 999, 1000, 24999, 25000, 25001, 59999, 60000, 199999, 200000, 500000, 1000000}
SizingPrices == {0 - 1, 0, 1, 25, 60, 100, 200, 500, 800}

CalculateOrderQuantity ==
    /\ lastCall.op = "calculate_order_quantity" /\ ~lastCall.returned
    /\ Returns(calculate_order_quantity(lastCall.args[1], lastCall.args[2]))

SpecSizing ==
    InitCalled({Call("calculate_order_quantity", <<ov, sp>>) :
                   ov \in SizingOrderValues, sp \in SizingPrices})
    /\ [][CalculateOrderQuantity]_vars

(* ---- the stored parameters under PUT /parameters ---- *)
(* The upper limit of per_order_value (risk_manager.py:64) *)
PerOrderValueMax == 10000000

(* Request bodies of PUT /parameters (routes/trading.py:31-96): one field, *)
(* or two fields together, each with a value inside the range the data     *)
(* model gives it or just outside it; is_active may be set as well.        *)
BodyValues(f) ==
    CASE f = "take_profit_pct" -> {0, 500, 10000, 10001}
      [] f = "stop_loss_pct" -> {0 - 5001, 0 - 1000, 0}
      [] f = "min_volume_shares" -> {0, 500}
      [] f = "min_volume_ratio" -> {0, 200}
      [] f = "per_order_value" -> {0, 200000, PerOrderValueMax + 1}
      [] f = "max_total_position" -> {0, 2000000}
      [] f = "max_daily_trades" -> {0, 5, 1001}

ParamUpdates ==
    LET RangedFields ==
            {"take_profit_pct", "stop_loss_pct", "min_volume_shares",
             "min_volume_ratio", "per_order_value", "max_total_position",
             "max_daily_trades"}
        Single == UNION {{(f :> v) : v \in BodyValues(f)} : f \in RangedFields}
    IN Single
       \cup {d @@ e : d \in Single, e \in Single}
       \cup {[is_active |-> TRUE]}

NextParams ==
    \/ \E data \in ParamUpdates : UpdateTradingParameters(data)
    \/ EmergencyStopRoute

SpecParams == InitCalled({NoCall}) /\ [][NextParams]_vars

(* validate_parameters (risk_manager.py:31-79) over candidates that supply  *)
(* any subset of the seven fields.  A value is a JSON value: its Python    *)
(* type and, for a number, its amount in the unit of the field (per cent   *)
(* and ratios in hundredths).                                              *)
IntValue(v) == [type |-> "int", v |-> v]
FloatValue(v) == [type |-> "float", v |-> v]

(* isinstance(x, (int, float, Decimal)) and isinstance(x, int) *)
IsNumber(x) == x.type \in {"int", "float"}
IsInt(x) == x.type = "int"

ErrorIf(cond, message) == IF cond THEN <<message>> ELSE << >>

(* The errors list, in the order the tests are written; each message is    *)
(* named after its field, the second message of per_order_value after its  *)
(* upper limit.                                                            *)
validation_errors(p) ==
    LET has(f) == f \in DOMAIN p
    IN ErrorIf(has("take_profit_pct") /\
               (~IsNumber(p["take_profit_pct"]) \/ p["take_profit_pct"].v <= 0
                  \/ p["take_profit_pct"].v > 10000), "take_profit_pct")
       \o ErrorIf(has("stop_loss_pct") /\
               (~IsNumber(p["stop_loss_pct"]) \/ p["stop_loss_pct"].v >= 0
                  \/ p["stop_loss_pct"].v < 0 - 5000), "stop_loss_pct")
       \o ErrorIf(has("min_volume_shares") /\
               (~IsInt(p["min_volume_shares"]) \/ p["min_volume_shares"].v <= 0),
               "min_volume_shares")
       \o ErrorIf(has("min_volume_ratio") /\
               (~IsNumber(p["min_volume_ratio"]) \/ p["min_volume_ratio"].v <= 0),
               "min_volume_ratio")
       \o (IF ~has("per_order_value") THEN << >>
           ELSE IF ~IsNumber(p["per_order_value"]) \/ p["per_order_value"].v <= 0
                THEN <<"per_order_value">>
           ELSE IF p["per_order_value"].v > PerOrderValueMax
                THEN <<"per_order_value_max">>
           ELSE << >>)
       \o ErrorIf(has("max_total_position") /\
               (~IsNumber(p["max_total_position"]) \/ p["max_total_position"].v <= 0),
               "max_total_position")
       \o ErrorIf(has("max_daily_trades") /\
               (~IsInt(p["max_daily_trades"]) \/ p["max_daily_trades"].v <= 0
                  \/ p["max_daily_trades"].v > 1000), "max_daily_trades")

(* validate_parameters returning at the first failing field *)
validate_parameters_first_error(p) ==
    LET errors == validation_errors(p)
        first == IF errors = << >> THEN << >> ELSE <<Head(errors)>>
    IN [ok |-> Len(first) = 0, errors |-> first]

validate_parameters(p) ==
    LET errors == validation_errors(p)
    IN [ok |-> Len(errors) = 0, errors |-> errors]

(* The candidates: per field, absent, in range (at a limit where there is  *)
(* one), out of range on each side, or of the wrong type.                  *)
ValidateCandidates ==
    LET Absent == [type |-> "absent", v |-> 0]
        StrValue == [type |-> "str", v |-> 0]
        Supplied(c) == [f \in {g \in DOMAIN c : c[g] # Absent} |-> c[f]]
    IN {Supplied([take_profit_pct |-> tp, stop_loss_pct |-> sl,
                  min_volume_shares |-> mvs, min_volume_ratio |-> mvr,
                  per_order_value |-> pov, max_total_position |-> mtp,
                  max_daily_trades |-> mdt]) :
           tp \in {Absent, IntValue(0), FloatValue(10000), FloatValue(10001)},
           sl \in {Absent, FloatValue(0 - 5001), FloatValue(0 - 5000), IntValue(0)},
           mvs \in {Absent, IntValue(0), IntValue(1), FloatValue(1)},
           mvr \in {Absent, FloatValue(0), FloatValue(1)},
           pov \in {Absent, IntValue(0), IntValue(PerOrderValueMax), IntValue(PerOrderValueMax + 1)},
           mtp \in {Absent, IntValue(0), IntValue(1), StrValue},
           mdt \in {Absent, IntValue(0), IntValue(1), IntValue(1000), IntValue(1001)}}

ValidateParameters ==
    /\ lastCall.op = "validate_parameters" /\ ~lastCall.returned
    /\ Returns(validate_parameters(lastCall.args[1]))

SpecValidate ==
    InitCalled({Call("validate_parameters", <<c>>) : c \in ValidateCandidates})
    /\ [][ValidateParameters]_vars

(* check_stop_loss_take_profit (risk_manager.py:232-249) over average      *)
(* costs (hundredths), quotes around the thresholds, and the pairs of      *)
(* take-profit / stop-loss percentages (hundredths of a per cent): the     *)
(* default one, another the parameter route accepts, and one given to the  *)
(* function directly under which both conditions can hold.                 *)
ExitAvgCosts == {10000, 20000, 2550, 33333}
ExitPrices == {24, 26, 28, 94, 95, 96, 103, 109, 110, 111, 112, 190, 220, 300, 367}
ExitPcts == {<<1000, 0 - 500>>, <<500, 0 - 1000>>, <<0 - 200, 300>>}

CheckStopLossTakeProfit ==
    /\ lastCall.op = "check_stop_loss_take_profit" /\ ~lastCall.returned
    /\ Returns(check_stop_loss_take_profit(lastCall.args[1], lastCall.args[2],
                                          lastCall.args[3], lastCall.args[4]))

SpecExit ==
    InitCalled({Call("check_stop_loss_take_profit", <<ac, cp, pc[1], pc[2]>>) :
                   ac \in ExitAvgCosts, cp \in ExitPrices, pc \in ExitPcts})
    /\ [][CheckStopLossTakeProfit]_vars

(* ---- the position ledger on its own ---- *)
(* _update_position_after_buy and _update_position_after_sell as           *)
(* execute_buy_decision / execute_sell_decision call them after a filled   *)
(* order (strategy_engine.py:196, 278), one call at a time, from an empty  *)
(* table.  A sell decision is made for an active position.                 *)
MaxLedgerRows == 2      \* rows of the Position table
MaxHeld == 2000         \* shares a position may reach
BuyQuantities == {500, 1000}
BuyPrices == {100, 130}

UpdatePositionAfterBuy(stock_code, quantity, price) ==
    /\ LET w == position_write(stock_code, quantity, price)
       IN /\ w.id = 0 => Len(positions) < MaxLedgerRows
          /\ w.quantity <= MaxHeld
    /\ positions' = update_position_after_buy(stock_code, quantity, price)
    /\ lastCall' = [engine |-> "evaluating", op |-> "update_position_after_buy",
                    args |-> <<stock_code, quantity, price>>, returned |-> TRUE]
    /\ logged' = << >>
    /\ lastCheck' = NoCheck
    /\ UNCHANGED <<now, tzOffset, params, trade_records, emergency_stop,
                   recent_signals, lastAccept>>
    /\ UNCHANGED <<brokerVars, engineVars>>
    /\ UNCHANGED <<loop_is_running, start_time, stop_event, threads, current_signals,
                   stopCall>>

UpdatePositionAfterSell(position_id) ==
    /\ position_id \in DOMAIN positions
    /\ positions[position_id].is_active
    /\ positions' = update_position_after_sell(position_id)
    /\ lastCall' = [engine |-> "evaluating", op |-> "update_position_after_sell",
                    args |-> <<position_id>>, returned |-> TRUE]
    /\ logged' = << >>
    /\ lastCheck' = NoCheck
    /\ UNCHANGED <<now, tzOffset, params, trade_records, emergency_stop,
                   recent_signals, lastAccept>>
    /\ UNCHANGED <<brokerVars, engineVars>>
    /\ UNCHANGED <<loop_is_running, start_time, stop_event, threads, current_signals,
                   stopCall>>

NextLedger ==
    \/ \E s \in Stocks, q \in BuyQuantities, pr \in BuyPrices :
          UpdatePositionAfterBuy(s, q, pr)
    \/ \E i \in 1..MaxLedgerRows : UpdatePositionAfterSell(i)

SpecLedger == InitCalled({NoCall}) /\ [][NextLedger]_vars

(* ---- the trade log on its own ---- *)
(* _record_trade as execute_buy_decision / execute_sell_decision call it   *)
(* after a filled order (strategy_engine.py:193, 275): the decision's      *)
(* quantity, a number of whole lots, and the execution price the broker    *)
(* reported.                                                               *)
TradeQuantities == {1000, 2000}
TradePrices == {25, 60, 100, 200, 220, 300}

RecordFilledTrade(stock_code, trade_type, quantity, execution_price) ==
    /\ Len(trade_records) < MaxFills
    /\ trade_records' = Append(trade_records,
            NewTradeRecord(stock_code, trade_type, quantity,
                           IF trade_type = "SELL" THEN "TAKE_PROFIT"
                           ELSE "YELLOW_CANDLE_BUY",
                           [execution_price |-> execution_price,
                            order_id |-> Len(trade_records) + 1]))
    /\ lastCall' = [engine |-> "evaluating", op |-> "record_trade",
                    args |-> <<stock_code, trade_type, quantity, execution_price>>,
                    returned |-> TRUE]
    /\ logged' = << >>
    /\ lastCheck' = NoCheck
    /\ UNCHANGED <<now, tzOffset, params, positions, emergency_stop,
                   recent_signals, lastAccept>>
    /\ UNCHANGED <<brokerVars, engineVars>>
    /\ UNCHANGED <<loop_is_running, start_time, stop_event, threads, current_signals,
                   stopCall>>

NextTrades ==
    \E trade_type \in {"BUY", "SELL"}, q \in TradeQuantities, pr \in TradePrices :
        RecordFilledTrade("2454.TW", trade_type, q, pr)

SpecTrades == InitCalled({NoCall}) /\ [][NextTrades]_vars

(* ---- the mock broker on its own ---- *)
(* MockBrokerAdapter.place_order (broker_adapter.py:146-231) called with   *)
(* the order types the engine sends ('MARKET' for a buy decision,          *)
(* strategy_engine.py:137 and 187; 'MARKET_SELL' for a sell, line 269) and *)
(* with the types the adapter names for a buy and a sell.                  *)
MaxOrders == 3          \* place_order calls made
OrderTypes == {"MARKET", "MARKET_SELL", "BUY", "SELL"}
OrderQuantities == {1000, 2000}

PlaceOrder(stock_code, order_type, quantity) ==
    /\ order_counter <= MaxOrders
    /\ LET res == place_order(stock_code, order_type, quantity)
       IN /\ order_counter' = order_counter + 1
          /\ mock_balance' = res.balance
          /\ mock_positions' = res.book
          /\ mock_orders' = res.orders
          /\ lastCall' = [engine |-> "broker", op |-> "place_order",
                          args |-> <<stock_code, order_type, quantity>>,
                          returned |-> TRUE,
                          ret |-> [success |-> res.success, error |-> res.error]]
    /\ logged' = << >>
    /\ lastCheck' = NoCheck
    /\ UNCHANGED mock_prices
    /\ UNCHANGED <<now, tzOffset, params, trade_records, positions, emergency_stop,
                   recent_signals, lastAccept>>
    /\ UNCHANGED engineVars
    /\ UNCHANGED <<loop_is_running, start_time, stop_event, threads, current_signals,
                   stopCall>>

NextBroker ==
    \E s \in Stocks, order_type \in OrderTypes, q \in OrderQuantities :
        PlaceOrder(s, order_type, q)

SpecBroker == InitCalled({NoCall}) /\ [][NextBroker]_vars

----------------------------------------------------------------------------
(* Properties of the risk gate, stated for SpecRisk                       *)

(* Rule i of the gate, taken alone, rejects call a in the current state.   *)
(* Rules 3 and 4 read the row loaded by the second query.                  *)
RuleFails(i, a) ==
    LET p == load_parameters(a.ld[2]) IN
    CASE i = 1 -> check_emergency_stop(a.ld[1])
      [] i = 2 -> ~p.row
      [] i = 3 -> p.row /\ ~check_daily_trade_limit(p.max_daily_trades)
      [] i = 4 -> p.row /\ ~check_position_limit(a.current_positions_value,
                                                 a.order_value, p.max_total_position)
      [] i = 5 -> ~check_single_stock_exposure(a.stock_code, a.order_value,
                                               a.total_asset_value)
      [] i = 6 -> ~check_duplicate_signal(a.stock_code)

Passes(a, upto) == \A i \in 1..upto : ~RuleFails(i, a)

FirstFailing(a) ==
    IF Passes(a, 6) THEN 0
    ELSE CHOOSE i \in 1..6 : RuleFails(i, a) /\ Passes(a, i - 1)

ReasonOfRule(i) ==
    IF i = 0 THEN "risk_check_passed"
    ELSE <<"system_halted", "parameters_unavailable", "daily_trade_limit",
           "position_limit", "single_stock_exposure", "duplicate_signal">>[i]

(* The SystemLog rows the failing rule writes: rules 3, 4 and 5 log a      *)
(* WARNING, the others write nothing.                                      *)
RowsOfRule(i) ==
    IF i \in 3..5 THEN <<LogRow("WARNING", ReasonOfRule(i))>> ELSE << >>

Halted == emergency_stop \/ (params.row /\ ~params.is_active)

(* C1: whenever the in-memory emergency_stop flag is set or the stored     *)
(* TradingParameters row has is_active false, a pre_trade_risk_check call  *)
(* is denied with the 'system halted' reason, for every stock, order       *)
(* value, positions value and asset value, in every state of the trade     *)
(* log, the limits and the cooldown table.                                 *)
HaltedDeniesEveryRequest ==
    [][(lastCheck'.called /\ Halted) =>
          (~lastCheck'.allow /\ lastCheck'.reason = "system_halted")]_vars

(* C1, the case: a call was just denied as halted, the trade log is not    *)
(* empty and the stored row is inactive.                                   *)
HaltedDenialReached ==
    /\ lastCheck.called /\ Halted /\ ~emergency_stop
    /\ lastCheck.reason = "system_halted"
    /\ trade_records # << >>

LocalTodayCount ==
    Cardinality({i \in DOMAIN trade_records :
                    trade_records[i].local_time >= MidnightOf(now)})

(* C3: a call that gets past rules 1-2 is denied with the daily-limit      *)
(* reason exactly when the number of trades executed since local-calendar  *)
(* midnight, read from the persisted trade log, has reached                *)
(* max_daily_trades.                                                       *)
DailyLimitCountsLocalDay ==
    [][lastCheck'.called =>
              LET a == lastCheck'.args IN
              (Passes(a, 2)) =>
                  ((lastCheck'.reason = "daily_trade_limit")
                      <=> (LocalTodayCount >= load_parameters(a.ld[2]).max_daily_trades))]_vars

(* C4: for every stock, a call that passes rules 1-5 less than the         *)
(* cooldown window after the last accepted call for that stock is denied,  *)
(* also when the two calls fall on different calendar days, and a call     *)
(* made after the window has elapsed is accepted.                          *)
CooldownBetweenAcceptances ==
    [][lastCheck'.called =>
              LET a == lastCheck'.args IN
              (Passes(a, 5)) =>
                  LET last == lastAccept[a.stock_code]
                      within == last # Never /\ now - last < CooldownMinutes
                  IN lastCheck'.allow = ~within]_vars

(* C5: a call that passes rules 1-3 is denied with the position-limit      *)
(* reason exactly when current_positions_value + order_value exceeds       *)
(* max_total_position; a sum equal to the limit is not denied by it.       *)
PositionLimitExact ==
    [][lastCheck'.called =>
              LET a == lastCheck'.args IN
              (Passes(a, 3)) =>
                  ((lastCheck'.reason = "position_limit")
                      <=> (a.current_positions_value + a.order_value
                              > load_parameters(a.ld[2]).max_total_position))]_vars

(* C5, the case: a request was denied by the position limit *)
PositionLimitDenialReached ==
    /\ lastCheck.called /\ lastCheck.reason = "position_limit"
    /\ lastCheck.args.current_positions_value + lastCheck.args.order_value
          > params.max_total_position

(* C6: a call that passes rules 1-4, with total_asset_value >= 0, is       *)
(* denied with the single-stock-exposure reason whenever the stock's       *)
(* active-position value plus order_value exceeds 20% of                   *)
(* total_asset_value; with total_asset_value = 0 every order of positive   *)
(* value is denied.                                                        *)
ExposureLimitDenies ==
    [][lastCheck'.called =>
              LET a == lastCheck'.args IN
              (Passes(a, 4) /\ a.total_asset_value >= 0
                  /\ (current_position_value(a.stock_code) + a.order_value) * 100
                        > MaxExposurePct * a.total_asset_value) =>
                  lastCheck'.reason = "single_stock_exposure"]_vars

----------------------------------------------------------------------------
(* Properties of starting and stopping, stated for SpecControl            *)

InCycle == {t \in DOMAIN threads : threads[t].pc = "cycle"}

(* C7: in the periodic engine, after any interleaving of start() and       *)
(* stop() calls, at most one loop thread is executing a cycle at any time. *)
AtMostOneCycleInFlight == Cardinality(InCycle) <= 1

LoopState == <<loop_is_running, start_time, stop_event, threads>>

StopCancelsSleepNotCycle ==
    [][/\ \A t \in DOMAIN threads :
            /\ (stop_event /\ threads[t].pc \in {"wait", "loop"}) =>
                   threads'[t].pc \in {"wait", "loop", "done"}
            /\ threads[t].pc = "cycle" =>
                   \/ threads'[t] = threads[t]
                   \/ /\ threads[t].todo > 0
                      /\ threads'[t] = [pc |-> "cycle", todo |-> threads[t].todo - 1]
                   \/ /\ threads[t].todo = 0
                      /\ threads'[t].pc = "wait"
                   \/ CycleRaises(t)
       /\ (StopReturn /\ stopCall.found \in {"wait", "loop"}) =>
              threads[Len(threads)].pc = "done"]_vars

(* C10, the case: stop found the thread sleeping and is still in join,     *)
(* the thread has ended.                                                   *)
SleepCancelledReached ==
    /\ stopCall.state = "joining"
    /\ stopCall.found = "wait"
    /\ threads[Len(threads)].pc = "done"

----------------------------------------------------------------------------
(* Properties of the run-cycle requests, stated for SpecCycle             *)

(* The positions for which a cycle holds a sell decision not yet executed  *)
PendingSells(r) ==
    {cyc[r].sell_decisions[i].position_id : i \in DOMAIN cyc[r].sell_decisions}

(* C8: a manual cycle is single-flight: while one cycle is in flight on    *)
(* the engine no second one executes, so no active position is evaluated   *)
(* by two cycles at once, with a SELL decided for it by both.              *)
ManualCycleSingleFlight ==
    /\ Cardinality(InFlight) <= 1
    /\ \A r1, r2 \in InFlight : r1 # r2 => PendingSells(r1) \cap PendingSells(r2) = {}

(* A signal that misses one of the three thresholds of the parameters *)
BelowCriteria(signal, p) ==
    \/ signal.volume_shares < p.min_volume_shares
    \/ signal.volume_ratio < p.min_volume_ratio
    \/ signal.money_flow < p.min_money_flow

(* C11: a signal below one of the three thresholds gets no buy decision,   *)
(* whatever the quote, the balance, the positions and the risk state, and  *)
(* pre_trade_risk_check is not called for it: nothing is asked of the risk *)
(* gate, no cooldown entry is written and no risk event is logged.         *)
WeakSignalNeverBought ==
    [][\A r \in Reqs :
          (/\ cyc[r].pc = "evaluate_signal"
           /\ cyc'[r] # cyc[r]
           /\ BelowCriteria(Head(cyc[r].signals), cyc[r].p)) =>
              /\ cyc'[r].buy_decisions = cyc[r].buy_decisions
              /\ cyc'[r].signals = Tail(cyc[r].signals)
              /\ lastCheck' = NoCheck
              /\ recent_signals' = recent_signals
              /\ logged' = << >>]_vars

(* C11, the case: the one signal of the screener has been evaluated and    *)
(* left aside without the risk gate accepting it, although the quote       *)
(* would have given a whole lot and no rule of the gate stood in the way.  *)
WeakSignalSkippedReached ==
    \E r \in Reqs :
        /\ cyc[r].pc = "monitor"
        /\ cyc[r].p.row
        /\ cyc[r].buy_decisions = << >>
        /\ signal_history = {[stock_code |-> "2454.TW", processed |-> FALSE]}
        /\ calculate_order_quantity(cyc[r].p.per_order_value,
                                    mock_prices["2454.TW"]) > 0
        /\ lastAccept["2454.TW"] = Never
        /\ recent_signals = << >>
        /\ submitted = << >>

(* C12: every buy decision a cycle holds, and every BUY it has submitted   *)
(* to the broker, is for a positive number of whole lots.                  *)
BuyQuantityWholeLots ==
    /\ \A r \in Reqs : \A i \in DOMAIN cyc[r].buy_decisions :
           /\ cyc[r].buy_decisions[i].quantity > 0
           /\ cyc[r].buy_decisions[i].quantity % 1000 = 0
    /\ \A i \in DOMAIN submitted :
           submitted[i].side = "BUY" =>
               (submitted[i].quantity > 0 /\ submitted[i].quantity % 1000 = 0)

(* C12, the case: a BUY of one lot has been submitted and filled           *)
BuySubmittedReached ==
    \E i \in DOMAIN submitted :
        /\ submitted[i].side = "BUY"
        /\ submitted[i].success
        /\ submitted[i].quantity = LotSize

(* The position's stock was bought by this engine at this broker: a BUY of *)
(* it was submitted and filled.                                            *)
OpenedHere(position_id) ==
    \E i \in DOMAIN submitted :
        /\ submitted[i].side = "BUY"
        /\ submitted[i].success
        /\ submitted[i].stock_code = positions[position_id].stock_code

(* The active positions whose quote meets the take-profit or the stop-loss *)
(* condition of the parameters in force.                                   *)
ExitDue ==
    LET p == IF params.row THEN params ELSE DefaultParameters
    IN {i \in DOMAIN positions :
          /\ positions[i].is_active
          /\ LET pnl == mock_prices[positions[i].stock_code] * 100 - positions[i].avg_cost
             IN \/ pnl * 10000 >= p.take_profit_pct * positions[i].avg_cost
                \/ pnl * 10000 <= p.stop_loss_pct * positions[i].avg_cost}

(* C14: a cycle decides a SELL, for the full quantity, for exactly the     *)
(* active positions whose exit condition holds, and submits each; the SELL *)
(* of a position the engine opened at this broker is filled and leaves the *)
(* position inactive.                                                      *)
ExitConditionSellsPosition ==
    [][\A r \in Reqs :
          /\ (cyc[r].pc = "monitor" /\ cyc'[r] # cyc[r] /\ is_running) =>
                 /\ PendingSells(r)' = ExitDue
                 /\ \A i \in DOMAIN cyc'[r].sell_decisions :
                        cyc'[r].sell_decisions[i].quantity =
                            positions[cyc'[r].sell_decisions[i].position_id].quantity
          /\ (cyc[r].pc = "execute_sell" /\ cyc'[r] # cyc[r]) =>
                 LET d == Head(cyc[r].sell_decisions)
                     sent == submitted'[Len(submitted')]
                 IN /\ Len(submitted') = Len(submitted) + 1
                    /\ sent.side = "SELL" /\ sent.stock_code = d.stock_code
                    /\ sent.quantity = d.quantity
                    /\ OpenedHere(d.position_id) =>
                           (sent.success /\ ~positions'[d.position_id].is_active)]_vars

(* C20: when the broker rejects an order, execute_buy_decision /           *)
(* execute_sell_decision report no execution, no trade is recorded, no     *)
(* position is created or changed, and the cycle goes on with the          *)
(* decisions that remain.                                                  *)
RejectedOrderChangesNothing ==
    [][\A r \in Reqs :
          (/\ cyc[r].pc \in {"execute_buy", "execute_sell"}
           /\ cyc'[r] # cyc[r]
           /\ ~submitted'[Len(submitted')].success) =>
              LET buying == cyc[r].pc = "execute_buy"
                  todo == IF buying THEN cyc[r].buy_decisions
                          ELSE cyc[r].sell_decisions
                  left == IF buying THEN cyc'[r].buy_decisions
                          ELSE cyc'[r].sell_decisions
              IN /\ trade_records' = trade_records
                 /\ positions' = positions
                 /\ cyc'[r].write = NoWrite
                 /\ cyc'[r].buy_executed = cyc[r].buy_executed
                 /\ cyc'[r].sell_executed = cyc[r].sell_executed
                 /\ left = Tail(todo)
                 /\ cyc'[r].pc = IF left # << >> THEN cyc[r].pc
                                 ELSE IF buying THEN "monitor" ELSE "end"]_vars

(* C20, the case: the broker rejected the first SELL of a cycle and the    *)
(* cycle went on to submit the second, for the other stock.                *)
RejectedThenNextReached ==
    \E r \in Reqs : \E i \in DOMAIN submitted :
        /\ i + 1 \in DOMAIN submitted
        /\ submitted[i].req = r /\ submitted[i + 1].req = r
        /\ submitted[i].side = "SELL" /\ ~submitted[i].success
        /\ submitted[i + 1].side = "SELL"
        /\ submitted[i + 1].stock_code # submitted[i].stock_code
        /\ cyc[r].pc = "end"
        /\ cyc[r].sell_executed = 0

----------------------------------------------------------------------------
(* Properties of the cycles of a session, stated for SpecDays             *)

(* The stock is in the ledger from a BUY that was filled for this engine   *)
(* and that no filled SELL of the stock has followed.                      *)
BoughtNotSold(stock_code) ==
    ActiveIds(stock_code) # {} /\ \E i \in DOMAIN submitted :
        /\ submitted[i].side = "BUY" /\ submitted[i].success
        /\ submitted[i].stock_code = stock_code
        /\ \A j \in DOMAIN submitted :
              (j > i /\ submitted[j].side = "SELL"
                     /\ submitted[j].stock_code = stock_code) => ~submitted[j].success

(* C13: a signal for a stock that has an active position in the ledger     *)
(* gets no buy decision, and no BUY is submitted for a stock the engine    *)
(* has bought and not sold since.                                          *)
HeldStockNotBoughtAgain ==
    [][\A r \in Reqs :
          /\ (/\ cyc[r].pc = "evaluate_signal"
              /\ cyc'[r] # cyc[r]
              /\ ActiveIds(Head(cyc[r].signals).stock_code) # {}) =>
                 cyc'[r].buy_decisions = cyc[r].buy_decisions
          /\ (cyc[r].pc = "execute_buy" /\ cyc'[r] # cyc[r]) =>
                 ~BoughtNotSold(Head(cyc[r].buy_decisions).stock_code)]_vars

(* C18: the ledger holds at most one active position for each stock        *)
OneActivePositionPerStock ==
    \A s \in Stocks : Cardinality(ActiveIds(s)) <= 1

----------------------------------------------------------------------------
(* Properties of the functions called on their own                        *)

(* C16: for a positive price and an order value >= 0,                      *)
(* calculate_order_quantity returns the largest whole number of lots the   *)
(* order value pays for, in shares: floor(order_value / (price x 1000)) x  *)
(* 1000; it returns 0 for a price <= 0 and for an order value below the    *)
(* cost of one lot; what it returns never costs more than the order value. *)
OrderQuantityIsFloorOfLots ==
    (lastCall.op = "calculate_order_quantity" /\ lastCall.returned) =>
        LET order_value == lastCall.args[1]
            price == lastCall.args[2]
            quantity == lastCall.ret
        IN /\ quantity % 1000 = 0
           /\ price <= 0 => quantity = 0
           /\ price > 0 =>
                 /\ quantity >= 0
                 /\ quantity * price <= order_value
                 /\ order_value < (quantity + 1000) * price
                 /\ order_value < price * 1000 => quantity = 0

(* C16, the case: 500000 at a price of 60 buys 8 lots, not 8.33 *)
EightLotsReached ==
    /\ lastCall.op = "calculate_order_quantity" /\ lastCall.returned
    /\ lastCall.args = <<500000, 60>>
    /\ lastCall.ret = 8000

(* C15: with pnl = (price - avg_cost) / avg_cost x 100,                    *)
(* check_stop_loss_take_profit returns TAKE_PROFIT exactly when pnl >=     *)
(* take_profit_pct, otherwise STOP_LOSS exactly when pnl <= stop_loss_pct, *)
(* otherwise no sell; take-profit wins when both hold.  With avg_cost 100, *)
(* 10 and -5 per cent: 112 gives TAKE_PROFIT, 94 STOP_LOSS, 103 no sell.   *)
ExitRuleTakeProfitFirst ==
    (lastCall.op = "check_stop_loss_take_profit" /\ lastCall.returned) =>
        LET avg_cost == lastCall.args[1]
            price == lastCall.args[2]
            take_profit_pct == lastCall.args[3]
            stop_loss_pct == lastCall.args[4]
            \* pnl in hundredths of a per cent times avg_cost
            pnl_scaled == (price * 100 - avg_cost) * 10000
            profit == pnl_scaled >= take_profit_pct * avg_cost
            loss == pnl_scaled <= stop_loss_pct * avg_cost
        IN /\ (lastCall.ret = "TAKE_PROFIT") = profit
           /\ (lastCall.ret = "STOP_LOSS") = (~profit /\ loss)
           /\ (lastCall.ret = "") = (~profit /\ ~loss)
           /\ (avg_cost = 10000 /\ take_profit_pct = 1000 /\ stop_loss_pct = 0 - 500) =>
                 /\ price = 112 => lastCall.ret = "TAKE_PROFIT"
                 /\ price = 94 => lastCall.ret = "STOP_LOSS"
                 /\ price = 103 => lastCall.ret = ""

(* C15, the case: both conditions hold and take-profit is returned *)
BothHoldTakeProfitReached ==
    /\ lastCall.op = "check_stop_loss_take_profit" /\ lastCall.returned
    /\ lastCall.args = <<10000, 103, 0 - 200, 300>>
    /\ lastCall.ret = "TAKE_PROFIT"

----------------------------------------------------------------------------
(* Properties of the position ledger, stated for SpecLedger               *)

(* C17: a buy of (quantity, price) for a stock without an active position  *)
(* adds one active position with that quantity and avg_cost = price; for a *)
(* stock with an active position it adds the quantity to that position and *)
(* sets avg_cost to (old avg_cost x old quantity + price x quantity) / new *)
(* quantity, kept to the two decimals of the column; nothing else changes. *)
(* (1000 @ 100) and a buy of (500 @ 130) give (1500 @ 110).                *)
BuyAveragesIntoPosition ==
    [][lastCall'.op = "update_position_after_buy" =>
          LET stock_code == lastCall'.args[1]
              quantity == lastCall'.args[2]
              price == lastCall'.args[3]
          IN IF ActiveIds(stock_code) = {}
             THEN /\ Len(positions') = Len(positions) + 1
                  /\ \A j \in DOMAIN positions : positions'[j] = positions[j]
                  /\ LET new == positions'[Len(positions')]
                     IN /\ new.stock_code = stock_code /\ new.is_active
                        /\ new.quantity = quantity
                        /\ new.avg_cost = price * 100
             ELSE \E i \in ActiveIds(stock_code) :
                     LET old == positions[i]
                         new == positions'[i]
                         cost == old.avg_cost * old.quantity + price * 100 * quantity
                     IN /\ Len(positions') = Len(positions)
                        /\ \A j \in DOMAIN positions : j # i => positions'[j] = positions[j]
                        /\ new.stock_code = stock_code /\ new.is_active
                        /\ new.quantity = old.quantity + quantity
                        /\ new.avg_cost * new.quantity <= cost
                        /\ cost < (new.avg_cost + 1) * new.quantity
                        /\ (old.quantity = 1000 /\ old.avg_cost = 10000
                              /\ quantity = 500 /\ price = 130) =>
                               (new.quantity = 1500 /\ new.avg_cost = 11000)]_vars

(* C17, the case: (1000 @ 100) was bought, then (500 @ 130) *)
AveragedPositionReached ==
    /\ lastCall.op = "update_position_after_buy"
    /\ lastCall.args = <<"2330.TW", 500, 130>>
    /\ Len(positions) = 1
    /\ positions[1].quantity = 1500 /\ positions[1].avg_cost = 11000

(* C19: the sell of a position's full quantity leaves the position with    *)
(* quantity 0, inactive, and with its avg_cost unchanged.                  *)
FullSellEmptiesPosition ==
    [][lastCall'.op = "update_position_after_sell" =>
          LET i == lastCall'.args[1]
          IN /\ positions'[i].quantity = positions[i].quantity - positions[i].quantity
             /\ ~positions'[i].is_active
             /\ positions'[i].avg_cost = positions[i].avg_cost]_vars

----------------------------------------------------------------------------
(* Properties of the trade log, stated for SpecTrades                     *)

----------------------------------------------------------------------------
(* Properties of the mock broker, stated for SpecBroker                   *)

(* C22: place_order fails with insufficient funds, leaving cash, holdings  *)
(* and recorded orders unchanged, for every buy whose amount exceeds the   *)
(* cash balance, and with insufficient holdings for every sell of more     *)
(* than is held, whether the order carries the adapter's own types or      *)
(* those the engine sends ('MARKET' for a buy, 'MARKET_SELL' for a sell);  *)
(* the cash balance is never negative.                                     *)
BrokerRejectsUnfundedOrders ==
    [][lastCall'.op = "place_order" =>
          LET stock_code == lastCall'.args[1]
              order_type == lastCall'.args[2]
              quantity == lastCall'.args[3]
              amount == PriceOr(stock_code, 100) * quantity
              held == IF stock_code \in DOMAIN mock_positions
                      THEN mock_positions[stock_code].quantity ELSE 0
              kept == /\ mock_balance' = mock_balance
                      /\ mock_positions' = mock_positions
                      /\ mock_orders' = mock_orders
          IN /\ (order_type \in {"MARKET", "BUY"} /\ amount > mock_balance) =>
                    /\ ~lastCall'.ret.success
                    /\ lastCall'.ret.error = "insufficient_funds"
                    /\ kept
             /\ (order_type \in {"MARKET_SELL", "SELL"} /\ quantity > held) =>
                    /\ ~lastCall'.ret.success
                    /\ lastCall'.ret.error = "insufficient_holdings"
                    /\ kept
             /\ mock_balance' >= 0]_vars

----------------------------------------------------------------------------
(* Properties of the emergency controls, stated for SpecHalt              *)

NoBuySubmittedWhileHalted ==
    [][(/\ Len(submitted') = Len(submitted) + 1
        /\ submitted'[Len(submitted')].side = "BUY") => ~Halted]_vars

(* C26: a cycle that runs while the emergency stop is engaged (the flag is *)
(* set, or the stored row has is_active false) evaluates no trade: its     *)
(* evaluation of a signal adds no buy decision, its monitoring of the      *)
(* positions makes no sell decision, and it submits no SELL.               *)
HaltedCycleEvaluatesNoTrade ==
    [][\A r \in Reqs :
          (cyc'[r] # cyc[r] /\ Halted) =>
              /\ cyc[r].pc = "evaluate_signal" =>
                     cyc'[r].buy_decisions = cyc[r].buy_decisions
              /\ cyc[r].pc = "monitor" => cyc'[r].sell_decisions = << >>
              /\ cyc[r].pc = "execute_sell" => submitted' = submitted]_vars

(* ---- Properties of a cycle whose fetch failed, stated for SpecCycle ---- *)

QuoteFailureSkipsOnlyThatItem ==
    [][\A r \in Reqs :
          /\ (cyc[r].pc = "evaluate_signal" /\ cyc'[r] # cyc[r]
                  /\ lastCall'.op = "get_stock_price"
                  /\ lastCall'.ret # <<"ok">>) =>
                 /\ cyc'[r].buy_decisions = cyc[r].buy_decisions
                 /\ cyc'[r].signals = Tail(cyc[r].signals)
                 /\ cyc'[r].pc = AfterEvaluate(cyc'[r].signals, cyc'[r].buy_decisions)
          /\ (cyc[r].pc = "monitor" /\ cyc'[r] # cyc[r]
                  /\ lastCall'.op = "get_stock_price") =>
                 cyc'[r].sell_decisions =
                     SellDecisionsQuoted(params',
                         [i \in DOMAIN positions |->
                             IF lastCall'.ret[i] = "raise" THEN "error"
                             ELSE lastCall'.ret[i]])]_vars

(* ---- Properties of the signal history, stated for SpecCycle ---- *)

(* C29: every signal a cycle has evaluated is marked processed in the      *)
(* signal history, with the action taken, by the end of that cycle: once   *)
(* no cycle is in flight, no row of the history is left unprocessed.       *)
EvaluatedSignalsMarkedProcessed ==
    InFlight = {} => \A row \in signal_history : row.processed

(* ---- Properties of the risk events, stated for SpecRisk ---- *)

(* C30: every pre_trade_risk_check call that is denied, whichever of the   *)
(* six rules denied it, appends exactly one risk event, of level WARNING   *)
(* and naming that rule; a call that is allowed appends none.              *)
EveryDenialLogsOneWarning ==
    [][lastCheck'.called =>
          IF lastCheck'.allow THEN logged' = << >>
          ELSE logged' = <<LogRow("WARNING", lastCheck'.reason)>>]_vars

(* ---- Properties of the parameter validation, stated for SpecValidate ---- *)

(* C31: validate_parameters tests every supplied field against its own     *)
(* range, whatever the other fields are: take_profit_pct in (0, 100],      *)
(* stop_loss_pct in [-50, 0), min_volume_shares a positive integer,        *)
(* min_volume_ratio > 0, per_order_value in (0, 10000000],                 *)
(* max_total_position > 0, max_daily_trades in [1, 1000].  The errors list *)
(* has exactly one entry for each field out of its range and none for the  *)
(* others, and ok is true exactly when the list is empty.                  *)
ValidationListsEveryViolation ==
    (lastCall.op = "validate_parameters" /\ lastCall.returned) =>
        LET c == lastCall.args[1]
            errors == lastCall.ret.errors
            number(f) == c[f].type \in {"int", "float"}
            InRange(f) ==
                CASE f = "take_profit_pct" -> number(f) /\ c[f].v > 0 /\ c[f].v <= 10000
                  [] f = "stop_loss_pct" -> number(f) /\ c[f].v >= 0 - 5000 /\ c[f].v < 0
                  [] f = "min_volume_shares" -> c[f].type = "int" /\ c[f].v > 0
                  [] f = "min_volume_ratio" -> number(f) /\ c[f].v > 0
                  [] f = "per_order_value" ->
                         number(f) /\ c[f].v > 0 /\ c[f].v <= 10000000
                  [] f = "max_total_position" -> number(f) /\ c[f].v > 0
                  [] f = "max_daily_trades" ->
                         c[f].type = "int" /\ c[f].v >= 1 /\ c[f].v <= 1000
            FieldOf(message) == IF message = "per_order_value_max"
                                THEN "per_order_value" ELSE message
            EntriesOf(f) == {i \in DOMAIN errors : FieldOf(errors[i]) = f}
        IN /\ \A f \in DOMAIN c :
                 Cardinality(EntriesOf(f)) = IF InRange(f) THEN 0 ELSE 1
           /\ \A i \in DOMAIN errors : FieldOf(errors[i]) \in DOMAIN c
           /\ lastCall.ret.ok = (errors = << >>)

(* C31, the case: three fields out of range among valid ones, all three    *)
(* reported                                                                *)
ThreeViolationsListedReached ==
    /\ lastCall.op = "validate_parameters" /\ lastCall.returned
    /\ DOMAIN lastCall.args[1] = {"take_profit_pct", "stop_loss_pct",
                                  "per_order_value", "max_total_position",
                                  "max_daily_trades"}
    /\ lastCall.ret.errors = <<"take_profit_pct", "per_order_value_max",
                               "max_daily_trades">>
    /\ ~lastCall.ret.ok

(* ---- Properties of the stored parameters, stated for SpecParams ---- *)

(* C32: after any sequence of parameter updates, the stored trading        *)
(* parameters are inside every range of the data model: take_profit_pct in *)
(* (0, 100], stop_loss_pct in [-50, 0), min_volume_shares > 0,             *)
(* min_volume_ratio > 0, per_order_value in (0, 10000000],                 *)
(* max_total_position > 0, max_daily_trades in [1, 1000].                  *)
StoredParametersInRange ==
    params.row =>
        /\ params.take_profit_pct > 0 /\ params.take_profit_pct <= 10000
        /\ params.stop_loss_pct >= 0 - 5000 /\ params.stop_loss_pct < 0
        /\ params.min_volume_shares > 0
        /\ params.min_volume_ratio > 0
        /\ params.per_order_value > 0 /\ params.per_order_value <= 10000000
        /\ params.max_total_position > 0
        /\ params.max_daily_trades >= 1 /\ params.max_daily_trades <= 1000

(* C33: a parameter update with at least one value outside its range is    *)
(* rejected, with the list of all the fields that are outside their range, *)
(* and leaves every stored parameter as it was, the valid fields of the    *)
(* same update included.                                                   *)
InvalidUpdateRejectedWhole ==
    [][\A data \in ParamUpdates :
          LET OutOfRange(f) ==
                  CASE f = "take_profit_pct" -> data[f] <= 0 \/ data[f] > 10000
                    [] f = "stop_loss_pct" -> data[f] < 0 - 5000 \/ data[f] >= 0
                    [] f = "min_volume_shares" -> data[f] <= 0
                    [] f = "min_volume_ratio" -> data[f] <= 0
                    [] f = "per_order_value" -> data[f] <= 0 \/ data[f] > 10000000
                    [] f = "max_total_position" -> data[f] <= 0
                    [] f = "max_daily_trades" -> data[f] < 1 \/ data[f] > 1000
                    [] OTHER -> FALSE
              Invalid == {f \in DOMAIN data : OutOfRange(f)}
          IN (UpdateTradingParameters(data) /\ Invalid # {}) =>
                 /\ UpdateErrors(data) = Invalid
                 /\ params' = params]_vars

(* ---- Properties of the risk gate without parameters, stated for SpecRisk ---- *)

(* C34: when the trading parameters cannot be loaded (load_parameters      *)
(* returns None: the query fails or finds no row) and the in-memory        *)
(* emergency flag is not set, pre_trade_risk_check denies with the reason  *)
(* 'parameters unavailable', not with 'system halted'.                     *)
UnloadableParametersReason ==
    [][(/\ lastCheck'.called
        /\ ~emergency_stop
        /\ (~params.row \/ ~lastCheck'.args.ld[1])) =>
          (~lastCheck'.allow /\ lastCheck'.reason = "parameters_unavailable")]_vars

(* C35: the in-memory emergency_stop flag of the engine's risk manager     *)
(* changes only through set_emergency_stop and reset_emergency_stop; no    *)
(* other operation sets or clears it.  The two calls leave the stored      *)
(* parameters, is_active included, as they are, so that the system is      *)
(* still halted after reset_emergency_stop when is_active is false.        *)
FlagChangesOnlyBySetAndReset ==
    [][/\ (emergency_stop' # emergency_stop) =>
              (SetEmergencyStop \/ ResetEmergencyStop)
       /\ (SetEmergencyStop \/ ResetEmergencyStop) => params' = params
       /\ (ResetEmergencyStop /\ params.row /\ ~params.is_active) => Halted']_vars

(* ---- Properties of the limits over a whole cycle, stated for SpecBatch ---- *)

(* C36: the trades recorded on one local calendar day never number more    *)
(* than max_daily_trades, also when one cycle evaluates several signals    *)
(* before it executes any order.                                           *)
DailyTradesWithinLimit ==
    params.row =>
        \A i \in DOMAIN trade_records :
            Cardinality({j \in DOMAIN trade_records :
                            DateOf(trade_records[j].local_time)
                                = DateOf(trade_records[i].local_time)})
                <= params.max_daily_trades

(* C37: within one cycle, the positions value read at the start of the     *)
(* cycle plus the order values of all the buy decisions the cycle has      *)
(* approved never exceeds max_total_position.                              *)
CycleBuysWithinPositionLimit ==
    \A r \in Reqs :
        cyc[r].p.row =>
            LET d == cyc[r].buy_decisions
                Sum[i \in 0 .. Len(d)] ==
                    IF i = 0 THEN 0 ELSE Sum[i - 1] + d[i].order_value
            IN cyc[r].current_position_value + Sum[Len(d)]
                   <= cyc[r].p.max_total_position

(* ---- Properties of the ledger against the broker, stated for SpecFresh ---- *)

(* C38: after any sequence of engine buys and sells on the mock broker,    *)
(* once no cycle is in flight, the Position ledger and the broker agree:   *)
(* a stock has an active ledger position of quantity q exactly when the    *)
(* broker's book holds q of it, and the broker's cash is the initial cash  *)
(* less the amount of every recorded buy plus that of every recorded sell. *)
LedgerAgreesWithBroker ==
    InFlight = {} =>
        LET LedgerQuantity(s) ==
                IF ActiveIds(s) = {} THEN 0
                ELSE positions[FirstActive(s)].quantity
            BookQuantity(s) ==
                IF s \in DOMAIN mock_positions THEN mock_positions[s].quantity
                ELSE 0
            Signed(t) == IF t.trade_type = "BUY" THEN 0 - t.total_amount
                         ELSE t.total_amount
            Cash[i \in 0 .. Len(trade_records)] ==
                IF i = 0 THEN InitialBalance
                ELSE Cash[i - 1] + Signed(trade_records[i])
        IN /\ \A s \in Stocks : LedgerQuantity(s) = BookQuantity(s)
           /\ mock_balance = Cash[Len(trade_records)]


(* ---- Properties of the two writes of a filled buy, stated for SpecStoring ---- *)

(* C39: every filled order leaves exactly one trade with its order id and  *)
(* one matching ledger update, together or not at all, a failing           *)
(* persistence write included.  On an installation that started empty,     *)
(* in every state where no buy is between its two writes: there are as     *)
(* many trades as filled orders, every trade has a broker order id and no  *)
(* two share one, and the quantity of each stock's active position is the  *)
(* sum of the quantities of its BUY trades (no sell is ever filled here,   *)
(* so every BUY trade of the stock is one since the position was opened).  *)
FilledBuyRecordedAndLedgeredOnce ==
    (\A r \in Reqs : cyc[r].pc # "update_position") =>
        LET Filled == {i \in 1 .. Len(submitted) : submitted[i].success}
            Bought[i \in 0 .. Len(trade_records)] ==
                [s \in Stocks |->
                    IF i = 0 THEN 0
                    ELSE Bought[i - 1][s] +
                         (IF trade_records[i].stock_code = s
                             /\ trade_records[i].trade_type = "BUY"
                          THEN trade_records[i].quantity ELSE 0)]
            Held(s) == IF ActiveIds(s) = {} THEN 0
                       ELSE positions[FirstActive(s)].quantity
        IN /\ Len(trade_records) = Cardinality(Filled)
           /\ \A i \in 1 .. Len(trade_records) : trade_records[i].order_id >= 1
           /\ \A i, j \in 1 .. Len(trade_records) :
                 trade_records[i].order_id = trade_records[j].order_id => i = j
           /\ \A s \in Stocks : Held(s) = Bought[Len(trade_records)][s]


(* ---- Properties of run-cycle among Start and Stop, stated for SpecManual ---- *)

(* C40: a manual run-cycle request leaves the running state as Start and   *)
(* Stop decided it.  (a) A Start request made while the engine is stopped  *)
(* by that decision (no Start or Stop was served yet, or the last one      *)
(* served was a successful Stop) is accepted, whatever run-cycle requests  *)
(* are in flight.  (b) Whenever no run-cycle request is in flight and the  *)
(* last Start/Stop request served was successful, the engine is running    *)
(* exactly if that request was a Start.                                    *)
ManualCycleKeepsRunningState ==
    [][/\ (StartStrategy /\ (lastCall = NoCall \/ (lastCall.op = "stop" /\ lastCall.ret)))
            => lastCall'.ret
       /\ (InFlight' = {} /\ lastCall' # NoCall /\ lastCall'.ret)
            => (is_running' <=> lastCall'.op = "start")]_vars

====
